---- MODULE Spec2Model ----
(***************************************************************************)
(* Invoice forms, invoice store and invoice numbering of the invoicing     *)
(* application.                                                            *)
(*                                                                         *)
(* Numbers.  Money values (rate, amount, subtotal, tax amounts, total) are *)
(* exact decimals, written as integers counting 1/10000 of a currency      *)
(* unit: a value v of the program is the integer v * Rupee.  Tax rates are *)
(* whole percents.  With item rates that are whole paise and whole         *)
(* quantities every product and every "/ 100" of the calculator is exact   *)
(* in this representation.  Binary floating-point rounding of the          *)
(* JavaScript arithmetic is not represented.                               *)
(*                                                                         *)
(* Text.  An invoice number is a sequence of one-character strings, so     *)
(* that the regular-expression filter, the cast to INTEGER and the cast    *)
(* back to TEXT of get_next_invoice_number are computed, not assumed.      *)
(***************************************************************************)
EXTENDS Integers, Sequences, FiniteSets, TLC

\* ------------------------------------------------------------------ bounds
\* Largest number of line items a form holds in the explored behaviours.
MaxItems == 2

\* ------------------------------------------------------- program constants
\* "/ 100" of the percentage computation.
PercentDivisor == 100
\* Scale of DECIMAL(10,2): digits kept after the decimal point.
DecimalScale == 2
\* Largest value of the PostgreSQL type INTEGER (4 bytes, signed).
IntegerMax == 2147483647

RECURSIVE Pow10(_)
Pow10(n) == IF n = 0 THEN 1 ELSE 10 * Pow10(n - 1)

\* One paisa (0.01) and one currency unit (1.00) in the integer representation.
Paisa == PercentDivisor
Rupee == Pow10(DecimalScale) * Paisa

\* ------------------------------------------------------------------- text
DigitChars == <<"0", "1", "2", "3", "4", "5", "6", "7", "8", "9">>

IsDigit(c) == \E d \in 1..10 : DigitChars[d] = c

DigitVal(c) == (CHOOSE d \in 1..10 : DigitChars[d] = c) - 1

\* invoice_number ~ '^[0-9]+$'
IsAllDigits(t) == Len(t) >= 1 /\ \A i \in 1..Len(t) : IsDigit(t[i])

\* REGEXP_REPLACE(invoice_number, '[^0-9]', '', 'g')
RECURSIVE StripNonDigits(_)
StripNonDigits(t) ==
    IF t = <<>> THEN <<>>
    ELSE IF IsDigit(Head(t)) THEN <<Head(t)>> \o StripNonDigits(Tail(t))
         ELSE StripNonDigits(Tail(t))

\* CAST(text AS INTEGER): the value, or -1 when the cast raises an error
\* (empty text, or a value out of the INTEGER range).
RECURSIVE CastDigits(_, _)
CastDigits(t, acc) ==
    IF t = <<>> THEN acc
    ELSE LET d == DigitVal(Head(t)) IN
         IF acc > (IntegerMax - d) \div 10 THEN -1
         ELSE CastDigits(Tail(t), 10 * acc + d)

CastInteger(t) == IF t = <<>> THEN -1 ELSE CastDigits(t, 0)

\* next_number::TEXT for a non-negative integer.
RECURSIVE IntegerToText(_)
IntegerToText(n) ==
    IF n < 10 THEN <<DigitChars[n + 1]>>
    ELSE IntegerToText(n \div 10) \o <<DigitChars[(n % 10) + 1]>>

SetMax(S) == CHOOSE m \in S : \A x \in S : x <= m

\* ------------------------------------------------------------- numbering
\* get_next_invoice_number without "AND invoice_number ~ '^[0-9]+$'".
get_next_invoice_number_no_filter(rows, user_uuid) ==
    LET matching == {r \in rows : r.user_id = user_uuid}
        casts    == {CastInteger(StripNonDigits(r.invoice_number)) : r \in matching}
    IN  IF -1 \in casts THEN [kind |-> "dberror", data |-> <<>>]
        ELSE LET max_number == IF casts = {} THEN 0 ELSE SetMax(casts) IN
             IF max_number = IntegerMax THEN [kind |-> "dberror", data |-> <<>>]
             ELSE [kind |-> "data", data |-> IntegerToText(max_number + 1)]

\* A function that numbers by COUNT(*) + 1 of the user's invoices.
get_next_invoice_number_count(rows, user_uuid) ==
    [kind |-> "data",
     data |-> IntegerToText(Cardinality({r \in rows : r.user_id = user_uuid}) + 1)]

\* get_next_invoice_number without "WHERE user_id = user_uuid".
get_next_invoice_number_any_user(rows, user_uuid) ==
    LET matching == {r \in rows : IsAllDigits(r.invoice_number)}
        casts    == {CastInteger(StripNonDigits(r.invoice_number)) : r \in matching}
    IN  IF -1 \in casts THEN [kind |-> "dberror", data |-> <<>>]
        ELSE LET max_number == IF casts = {} THEN 0 ELSE SetMax(casts) IN
             IF max_number = IntegerMax THEN [kind |-> "dberror", data |-> <<>>]
             ELSE [kind |-> "data", data |-> IntegerToText(max_number + 1)]

\* get_next_invoice_number(user_uuid) evaluated on the rows of table
\* invoices: [kind |-> "data", data |-> text] or [kind |-> "dberror"].
get_next_invoice_number(rows, user_uuid) ==
    LET matching == {r \in rows : r.user_id = user_uuid
                                  /\ IsAllDigits(r.invoice_number)}
        casts    == {CastInteger(StripNonDigits(r.invoice_number)) : r \in matching}
    IN  IF -1 \in casts THEN [kind |-> "dberror", data |-> <<>>]
        ELSE LET max_number == IF casts = {} THEN 0 ELSE SetMax(casts) IN
             IF max_number = IntegerMax THEN [kind |-> "dberror", data |-> <<>>]
             ELSE [kind |-> "data", data |-> IntegerToText(max_number + 1)]

\* The rpc endpoint get_next_invoice_number after all migrations, called by
\* the signed-in user auth_uid.  The fix migration creates the overload
\* get_next_invoice_number() and leaves get_next_invoice_number(user_uuid) in
\* place; both are SECURITY DEFINER, and the arguments of the call select the
\* overload: args is <<>> or <<user_uuid>>.
rpc_get_next_invoice_number(rows, auth_uid, args) ==
    IF args = <<>> THEN get_next_invoice_number(rows, auth_uid)
    ELSE get_next_invoice_number(rows, args[1])

\* ------------------------------------------------------------ calculator
\* SumAmounts adding up item.rate.
RECURSIVE SumRates(_)
SumRates(items) ==
    IF items = <<>> THEN 0 ELSE Head(items).rate + SumRates(Tail(items))

\* SumAmounts with an initial value of the reduce that is not 0.
RECURSIVE SumAmountsFromOne(_)
SumAmountsFromOne(items) ==
    IF items = <<>> THEN 1 ELSE Head(items).amount + SumAmountsFromOne(Tail(items))

\* items.reduce((sum, item) => sum + item.amount, 0)
RECURSIVE SumAmounts(_)
SumAmounts(items) ==
    IF items = <<>> THEN 0 ELSE Head(items).amount + SumAmounts(Tail(items))

\* calculateTotals refusing a negative subtotal: Math.max(0, subtotal).
calculateTotalsClamped(items, igstRate, sgstRate, cgstRate) ==
    LET sum        == SumAmounts(items)
        subtotal   == IF sum < 0 THEN 0 ELSE sum
        igstAmount == (subtotal * igstRate) \div PercentDivisor
        sgstAmount == (subtotal * sgstRate) \div PercentDivisor
        cgstAmount == (subtotal * cgstRate) \div PercentDivisor
        totalTax   == igstAmount + sgstAmount + cgstAmount
        total      == subtotal + totalTax
    IN  [subtotal |-> subtotal, igstAmount |-> igstAmount,
         sgstAmount |-> sgstAmount, cgstAmount |-> cgstAmount,
         totalTax |-> totalTax, total |-> total]

\* calculateTotals taking a rate for a fraction: no "/ 100".
calculateTotalsNoPercent(items, igstRate, sgstRate, cgstRate) ==
    LET subtotal   == SumAmounts(items)
        igstAmount == subtotal * igstRate
        sgstAmount == subtotal * sgstRate
        cgstAmount == subtotal * cgstRate
        totalTax   == igstAmount + sgstAmount + cgstAmount
        total      == subtotal + totalTax
    IN  [subtotal |-> subtotal, igstAmount |-> igstAmount,
         sgstAmount |-> sgstAmount, cgstAmount |-> cgstAmount,
         totalTax |-> totalTax, total |-> total]

\* calculateTotals leaving the CGST amount out of the tax total.
calculateTotalsNoCgst(items, igstRate, sgstRate, cgstRate) ==
    LET subtotal   == SumAmounts(items)
        igstAmount == (subtotal * igstRate) \div PercentDivisor
        sgstAmount == (subtotal * sgstRate) \div PercentDivisor
        cgstAmount == (subtotal * cgstRate) \div PercentDivisor
        totalTax   == igstAmount + sgstAmount
        total      == subtotal + totalTax
    IN  [subtotal |-> subtotal, igstAmount |-> igstAmount,
         sgstAmount |-> sgstAmount, cgstAmount |-> cgstAmount,
         totalTax |-> totalTax, total |-> total]

\* calculateTotals() of the create form and of the edit form (same code).
calculateTotals(items, igstRate, sgstRate, cgstRate) ==
    LET subtotal   == SumAmounts(items)
        igstAmount == (subtotal * igstRate) \div PercentDivisor
        sgstAmount == (subtotal * sgstRate) \div PercentDivisor
        cgstAmount == (subtotal * cgstRate) \div PercentDivisor
        totalTax   == igstAmount + sgstAmount + cgstAmount
        total      == subtotal + totalTax
    IN  [subtotal |-> subtotal, igstAmount |-> igstAmount,
         sgstAmount |-> sgstAmount, cgstAmount |-> cgstAmount,
         totalTax |-> totalTax, total |-> total]

\* ----------------------------------------------------------------- store
\* NUMERIC -> DECIMAL(10,2): round to DecimalScale digits, half away from zero.
RoundDecimal(v) ==
    LET a == IF v < 0 THEN -v ELSE v
        q == a \div Paisa
        r == a % Paisa
        m == IF 2 * r >= Paisa THEN (q + 1) * Paisa ELSE q * Paisa
    IN  IF v < 0 THEN -m ELSE m

\* gen_random_uuid(): an id no row has.
NewId(rows) == CHOOSE i \in 1..(Cardinality(rows) + 1) : \A r \in rows : r.id # i

\* A constraint UNIQUE(invoice_number) over the whole table.
ViolatesUniqueAnyUser(rows, r) ==
    \E o \in rows : o.id # r.id /\ o.invoice_number = r.invoice_number

\* A table without the constraint UNIQUE(user_id, invoice_number).
ViolatesUniqueNever(rows, r) == FALSE

\* UNIQUE(user_id, invoice_number), checked for row r against the other rows.
ViolatesUnique(rows, r) ==
    \E o \in rows : o.id # r.id /\ o.user_id = r.user_id
                    /\ o.invoice_number = r.invoice_number

\* The row table invoices keeps for the column values v: columns subtotal and
\* total_amount are DECIMAL(10,2), the six tax columns are unconstrained numeric.
StoredRow(id, user_id, v, status) ==
    [id |-> id, user_id |-> user_id, invoice_number |-> v.invoice_number,
     subtotal |-> RoundDecimal(v.subtotal),
     igst_rate |-> v.igst_rate, igst_amount |-> v.igst_amount,
     sgst_rate |-> v.sgst_rate, sgst_amount |-> v.sgst_amount,
     cgst_rate |-> v.cgst_rate, cgst_amount |-> v.cgst_amount,
     total_amount |-> RoundDecimal(v.total_amount),
     items |-> v.items, status |-> status]

\* INSERT INTO invoices: [error |-> "" or the SQLSTATE, rows |-> the table after].
InsertInvoice(rows, v) ==
    LET r == StoredRow(NewId(rows), v.user_id, v, v.status) IN
    IF ViolatesUnique(rows, r) THEN [error |-> "23505", rows |-> rows]
    ELSE [error |-> "", rows |-> rows \cup {r}]

\* UPDATE invoices SET <the columns of v> WHERE id = id, without the user.
UpdateInvoiceAnyUser(rows, id, user, v) ==
    LET hit == {r \in rows : r.id = id}
        new == {StoredRow(r.id, r.user_id, v, r.status) : r \in hit}
    IN  IF \E r \in new : ViolatesUnique(rows, r)
        THEN [error |-> "23505", rows |-> rows]
        ELSE [error |-> "", rows |-> (rows \ hit) \cup new]

\* UPDATE invoices SET <the columns of v> WHERE id = id AND user_id = user:
\* no matching row is no error.
UpdateInvoice(rows, id, user, v) ==
    LET hit == {r \in rows : r.id = id /\ r.user_id = user}
        new == {StoredRow(r.id, r.user_id, v, r.status) : r \in hit}
    IN  IF \E r \in new : ViolatesUnique(rows, r)
        THEN [error |-> "23505", rows |-> rows]
        ELSE [error |-> "", rows |-> (rows \ hit) \cup new]

\* UPDATE invoices SET status = status WHERE id = id, under the row-level
\* security policy "Users can update their own invoices".
UpdateStatusRows(rows, id, user, status) ==
    {IF r.id = id /\ r.user_id = user THEN [r EXCEPT !.status = status] ELSE r
     : r \in rows}

\* ------------------------------------------------------- users, sessions
Users == {"u1", "u2"}

\* Browser tabs showing the create form, and the user signed in in each.
CreateSessions == {"c1", "c2"}
\* Browser tabs showing the edit form.
EditSessions == {"e1"}

\* A create tab and an edit tab of the other user.
OtherCreateSessions == {"c3"}
OtherEditSessions == {"e2"}

SessionUser(s) == IF s \in OtherCreateSessions \cup OtherEditSessions
                  THEN "u2" ELSE "u1"

NoToast          == ""
ToastNoItems     == "Please add at least one item"
ToastCreateOk    == "Invoice created successfully!"
ToastCreateFail  == "Failed to create invoice"
ToastUpdateOk    == "Invoice updated successfully!"
ToastUpdateFail  == "Failed to update invoice"
ToastLoadFail    == "Failed to load invoice"

VARIABLES
    invoices,   \* table public.invoices: a set of rows
    cf,         \* cf[s]: component state of the create form in tab s
    ef,         \* ef[e]: component state of the edit form in tab e
    ledger      \* component state of the invoice ledger of user u1

vars == <<invoices, cf, ef, ledger>>

\* useState/useForm defaults of CreateInvoice, before the component mounts.
\* rpc is the kind of answer the rpc gave; sent and error are the invoice number
\* the last onSubmit sent and the error it caught.
CreateDefaults ==
    [pc |-> "closed", numReq |-> "none", rpc |-> "none",
     invoiceNumber |-> <<>>, igstRate |-> 0, sgstRate |-> 0, cgstRate |-> 0,
     items |-> <<>>, loading |-> FALSE, inflight |-> <<>>,
     formErrors |-> {}, toast |-> NoToast, sent |-> <<>>, error |-> ""]

\* useState/useForm defaults of EditInvoice.
EditDefaults ==
    [pc |-> "closed", id |-> 0,
     invoiceNumber |-> <<>>, igstRate |-> 0, sgstRate |-> 0, cgstRate |-> 0,
     items |-> <<>>, loading |-> FALSE, inflight |-> <<>>,
     formErrors |-> {}, toast |-> NoToast, error |-> ""]

\* invoiceSchema with z.number() for the three rates, without min and max.
invoiceSchemaNoRange(f) ==
    IF Len(f.invoiceNumber) >= 1 THEN {} ELSE {"invoiceNumber"}

\* invoiceSchema: the fields of the zod schema that fail for the form values f
\* (companyId, clientId and invoiceDate are taken as filled in).
invoiceSchema(f) ==
    (IF Len(f.invoiceNumber) >= 1 THEN {} ELSE {"invoiceNumber"})
    \cup (IF f.igstRate >= 0 /\ f.igstRate <= 100 THEN {} ELSE {"igstRate"})
    \cup (IF f.sgstRate >= 0 /\ f.sgstRate <= 100 THEN {} ELSE {"sgstRate"})
    \cup (IF f.cgstRate >= 0 /\ f.cgstRate <= 100 THEN {} ELSE {"cgstRate"})

\* reValidateMode onChange: once a submit has failed validation, a changed
\* field is validated again.
Revalidate(f) == IF f.formErrors = {} THEN f
                 ELSE [f EXCEPT !.formErrors = invoiceSchema(f)]

\* JSON.parse(JSON.stringify(items)): every field of an item is a finite
\* number or a string and comes back unchanged.
JsonRoundTrip(items) == [i \in 1..Len(items) |-> items[i]]

\* ColumnValues writing only the digits of the invoice number.
ColumnValuesDigitsOnly(f) ==
    LET t == calculateTotals(f.items, f.igstRate, f.sgstRate, f.cgstRate) IN
    [invoice_number |-> StripNonDigits(f.invoiceNumber),
     subtotal |-> t.subtotal,
     igst_rate |-> f.igstRate, igst_amount |-> t.igstAmount,
     sgst_rate |-> f.sgstRate, sgst_amount |-> t.sgstAmount,
     cgst_rate |-> f.cgstRate, cgst_amount |-> t.cgstAmount,
     total_amount |-> t.total,
     items |-> JsonRoundTrip(f.items)]

\* The column values both forms write: values of the validated form plus the
\* totals of calculateTotals() at that moment.
ColumnValues(f) ==
    LET t == calculateTotals(f.items, f.igstRate, f.sgstRate, f.cgstRate) IN
    [invoice_number |-> f.invoiceNumber,
     subtotal |-> t.subtotal,
     igst_rate |-> f.igstRate, igst_amount |-> t.igstAmount,
     sgst_rate |-> f.sgstRate, sgst_amount |-> t.sgstAmount,
     cgst_rate |-> f.cgstRate, cgst_amount |-> t.cgstAmount,
     total_amount |-> t.total,
     items |-> JsonRoundTrip(f.items)]

\* ------------------------------------------------------ create form: items
\* An item of the create form carries a random id (Math.random) that only
\* serves to find the item again.  The ids of a form's items are taken to be
\* pairwise distinct, and an item is identified by its position k instead.

\* CreateInvoice.addItem
CreateAddItemTo(items) ==
    Append(items, [description |-> "", quantity |-> 1, rate |-> 0, amount |-> 0])

\* UpdatedItem computing the amount from the item as it was before the change.
UpdatedItemStaleAmount(item, field, value) ==
    LET u == [item EXCEPT ![field] = value] IN
    IF field = "quantity" \/ field = "rate"
    THEN [u EXCEPT !.amount = (item.quantity * item.rate)]
    ELSE u

\* UpdatedItem recomputing the amount for the quantity only.
UpdatedItemQuantityOnly(item, field, value) ==
    LET u == [item EXCEPT ![field] = value] IN
    IF field = "quantity"
    THEN [u EXCEPT !.amount = (u.quantity * u.rate)]
    ELSE u

\* { ...item, [field]: value } with the amount recomputed for quantity and rate.
UpdatedItem(item, field, value) ==
    LET u == [item EXCEPT ![field] = value] IN
    IF field = "quantity" \/ field = "rate"
    THEN [u EXCEPT !.amount = (u.quantity * u.rate)]
    ELSE u

\* CreateInvoice.updateItem, for the id of the item at position k.
CreateUpdateItemIn(items, k, field, value) ==
    [j \in 1..Len(items) |->
        IF j = k THEN UpdatedItem(items[j], field, value) ELSE items[j]]

\* CreateInvoice.removeItem, for the id of the item at position k.
CreateRemoveItemFrom(items, k) ==
    [j \in 1..(Len(items) - 1) |-> IF j < k THEN items[j] ELSE items[j + 1]]

\* ------------------------------------------------------------ create form
\* Mount of CreateInvoice: the default values, then the effect that finds the
\* invoice-number field empty and calls getNextInvoiceNumber().
OpenCreate(s) ==
    /\ cf[s].pc = "closed"
    /\ cf' = [cf EXCEPT ![s] = [CreateDefaults EXCEPT !.pc = "open",
                                                      !.numReq = "pending"]]
    /\ UNCHANGED <<invoices, ef, ledger>>

\* getNextInvoiceNumber returning the data of the response whatever its kind.
getNextInvoiceNumberNoFallback(resp) == resp.data

\* getNextInvoiceNumber: what it resolves to for the response of the rpc.
getNextInvoiceNumber(resp) ==
    IF resp.kind = "data" /\ resp.data # <<>> THEN resp.data ELSE <<"1">>

\* getNextInvoiceNumber from its first line on: user is "" when nobody is
\* signed in, and then no request is made.
getNextInvoiceNumberAs(user, resp) ==
    IF user = "" THEN <<"1">> ELSE getNextInvoiceNumber(resp)

\* setInvoiceNumber after the await: form.setValue('invoiceNumber', nextNumber).
SetInvoiceNumber(f, resp) ==
    [f EXCEPT !.rpc = resp.kind, !.numReq = "done",
              !.invoiceNumber = getNextInvoiceNumber(resp)]

\* A request that reserves the number it returns by storing a row for it.
ReceiveNumberReserving(s, reached) ==
    /\ cf[s].numReq = "pending"
    /\ LET resp == IF reached
                   THEN rpc_get_next_invoice_number(invoices, SessionUser(s),
                                                    <<SessionUser(s)>>)
                   ELSE [kind |-> "neterror", data |-> <<>>]
           v    == [user_id |-> SessionUser(s), status |-> "draft"]
                   @@ ColumnValues(SetInvoiceNumber(cf[s], resp))
       IN  /\ cf' = [cf EXCEPT ![s] = SetInvoiceNumber(@, resp)]
           /\ invoices' = IF resp.kind = "data"
                           THEN InsertInvoice(invoices, v).rows ELSE invoices
    /\ UNCHANGED <<ef, ledger>>

\* The rpc answers: the function's result on the table as it is now, or (when
\* reached is FALSE) a transport failure.
ReceiveNumber(s, reached) ==
    /\ cf[s].numReq = "pending"
    /\ LET resp == IF reached
                   THEN rpc_get_next_invoice_number(invoices, SessionUser(s),
                                                    <<SessionUser(s)>>)
                   ELSE [kind |-> "neterror", data |-> <<>>]
       IN  cf' = [cf EXCEPT ![s] = SetInvoiceNumber(@, resp)]
    /\ UNCHANGED <<invoices, ef, ledger>>

\* The user edits the invoice-number field.
TypeNumber(s, t) ==
    /\ cf[s].pc = "open"
    /\ cf[s].invoiceNumber # t
    /\ cf' = [cf EXCEPT ![s] = Revalidate([@ EXCEPT !.invoiceNumber = t])]
    /\ UNCHANGED <<invoices, ef, ledger>>

\* A tax-rate field that clears IGST when SGST or CGST is set, and the reverse.
SetRateExclusive(s, field, v) ==
    /\ cf[s].pc = "open"
    /\ cf[s][field] # v
    /\ cf' = [cf EXCEPT ![s] = Revalidate(
                 IF v = 0 THEN [@ EXCEPT ![field] = v]
                 ELSE IF field = "igstRate"
                 THEN [@ EXCEPT !.igstRate = v, !.sgstRate = 0, !.cgstRate = 0]
                 ELSE [@ EXCEPT ![field] = v, !.igstRate = 0])]
    /\ UNCHANGED <<invoices, ef, ledger>>

\* onChange of a tax-rate field: parseFloat(value) || 0.
SetRate(s, field, v) ==
    /\ cf[s].pc = "open"
    /\ cf[s][field] # v
    /\ cf' = [cf EXCEPT ![s] = Revalidate([@ EXCEPT ![field] = v])]
    /\ UNCHANGED <<invoices, ef, ledger>>

AddItem(s) ==
    /\ cf[s].pc = "open"
    /\ Len(cf[s].items) < MaxItems
    /\ cf' = [cf EXCEPT ![s].items = CreateAddItemTo(@)]
    /\ UNCHANGED <<invoices, ef, ledger>>

\* onChange of the quantity input: parseInt(value) || 1.
CreateQuantityInput(raw) == IF raw = 0 THEN 1 ELSE raw

UpdateItem(s, k, field, value) ==
    /\ cf[s].pc = "open"
    /\ k \in 1..Len(cf[s].items)
    /\ cf[s].items[k][field] # value
    /\ cf' = [cf EXCEPT ![s].items = CreateUpdateItemIn(@, k, field, value)]
    /\ UNCHANGED <<invoices, ef, ledger>>

RemoveItem(s, k) ==
    /\ cf[s].pc = "open"
    /\ k \in 1..Len(cf[s].items)
    /\ cf' = [cf EXCEPT ![s].items = CreateRemoveItemFrom(@, k)]
    /\ UNCHANGED <<invoices, ef, ledger>>

\* onSubmit of the create form without the test items.length === 0.
CreateOnSubmitAnyItems(f, user) ==
    IF invoiceSchema(f) # {} THEN [f EXCEPT !.formErrors = invoiceSchema(f)]
    ELSE [f EXCEPT !.formErrors = {}, !.loading = TRUE, !.pc = "saving",
                   !.sent = f.invoiceNumber, !.error = "",
                   !.inflight = <<[user_id |-> user, status |-> "draft"]
                                  @@ ColumnValues(f)>>]

\* form.handleSubmit(onSubmit) of the create form, up to the await of insert.
CreateOnSubmit(f, user) ==
    IF invoiceSchema(f) # {} THEN [f EXCEPT !.formErrors = invoiceSchema(f)]
    ELSE IF Len(f.items) = 0
    THEN [f EXCEPT !.formErrors = {}, !.toast = ToastNoItems]
    ELSE [f EXCEPT !.formErrors = {}, !.loading = TRUE, !.pc = "saving",
                   !.sent = f.invoiceNumber, !.error = "",
                   !.inflight = <<[user_id |-> user, status |-> "draft"]
                                  @@ ColumnValues(f)>>]

\* min="1" of the quantity inputs of the create form.
QuantityMin == 1

\* The browser's validation of the inputs when the form is submitted: the
\* form is not noValidate, and a quantity below min keeps the submit event
\* from being dispatched.
CreateInputsValid(f) ==
    \A i \in 1..Len(f.items) : f.items[i].quantity >= QuantityMin

\* A submit button that is also disabled until the number request answered.
SubmitCreateAfterNumber(s) ==
    /\ cf[s].pc = "open"
    /\ ~cf[s].loading
    /\ CreateInputsValid(cf[s])
    /\ cf[s].numReq = "done"
    /\ cf' = [cf EXCEPT ![s] = CreateOnSubmit(@, SessionUser(s))]
    /\ UNCHANGED <<invoices, ef, ledger>>

\* The submit button is disabled while loading.
SubmitCreate(s) ==
    /\ cf[s].pc = "open"
    /\ ~cf[s].loading
    /\ CreateInputsValid(cf[s])
    /\ cf' = [cf EXCEPT ![s] = CreateOnSubmit(@, SessionUser(s))]
    /\ UNCHANGED <<invoices, ef, ledger>>

\* An error branch without the finally block: loading stays true.
CreateOnErrorNoFinally(f, error) ==
    [f EXCEPT !.pc = "open", !.inflight = <<>>,
              !.toast = ToastCreateFail, !.error = error]

\* An error branch that asks for a new number and clears the field.
CreateOnErrorRenumber(f, error) ==
    [f EXCEPT !.pc = "open", !.loading = FALSE, !.inflight = <<>>,
              !.toast = ToastCreateFail, !.error = error,
              !.invoiceNumber = <<>>, !.numReq = "pending"]

\* onSubmit after the await, error branch: catch and finally.
CreateOnError(f, error) ==
    [f EXCEPT !.pc = "open", !.loading = FALSE, !.inflight = <<>>,
              !.toast = ToastCreateFail, !.error = error]

\* onSubmit after the await, success branch: toast, navigate("/dashboard")
\* unmounts the form.
CreateOnSuccess(f) ==
    [CreateDefaults EXCEPT !.pc = "done", !.toast = ToastCreateOk, !.sent = f.sent]

\* The insert is executed and answers; when reached is FALSE the request
\* fails without reaching the table.
InsertReturn(s, reached) ==
    /\ cf[s].pc = "saving"
    /\ LET res == IF reached THEN InsertInvoice(invoices, Head(cf[s].inflight))
                  ELSE [error |-> "other", rows |-> invoices]
       IN  /\ invoices' = res.rows
           /\ cf' = [cf EXCEPT ![s] = IF res.error = "" THEN CreateOnSuccess(@)
                                      ELSE CreateOnError(@, res.error)]
    /\ UNCHANGED <<ef, ledger>>

\* -------------------------------------------------------------- edit form
\* Mount of EditInvoice for the route /edit-invoice/:id: pageLoading is TRUE
\* and fetchInvoiceData is under way.
OpenEdit(e, id) ==
    /\ ef[e].pc = "closed"
    /\ ef' = [ef EXCEPT ![e] = [EditDefaults EXCEPT !.pc = "loading", !.id = id]]
    /\ UNCHANGED <<invoices, cf, ledger>>

\* fetchInvoiceData after the await: form.reset(...) and setItems(...), or the
\* error branch (no row with this id and user) that navigates away.
EditOnFetched(f, rows, user) ==
    LET hit == {r \in rows : r.id = f.id /\ r.user_id = user} IN
    IF hit = {} THEN [EditDefaults EXCEPT !.toast = ToastLoadFail]
    ELSE LET invoice == CHOOSE r \in hit : TRUE IN
         [f EXCEPT !.pc = "open",
                   !.invoiceNumber = invoice.invoice_number,
                   !.igstRate = invoice.igst_rate,
                   !.sgstRate = invoice.sgst_rate,
                   !.cgstRate = invoice.cgst_rate,
                   !.items = invoice.items]

EditLoaded(e) ==
    /\ ef[e].pc = "loading"
    /\ ef' = [ef EXCEPT ![e] = EditOnFetched(@, invoices, SessionUser(e))]
    /\ UNCHANGED <<invoices, cf, ledger>>

EditTypeNumber(e, t) ==
    /\ ef[e].pc = "open"
    /\ ef[e].invoiceNumber # t
    /\ ef' = [ef EXCEPT ![e] = Revalidate([@ EXCEPT !.invoiceNumber = t])]
    /\ UNCHANGED <<invoices, cf, ledger>>

EditSetRate(e, field, v) ==
    /\ ef[e].pc = "open"
    /\ ef[e][field] # v
    /\ ef' = [ef EXCEPT ![e] = Revalidate([@ EXCEPT ![field] = v])]
    /\ UNCHANGED <<invoices, cf, ledger>>

\* EditInvoice.addItem
EditAddItemTo(items) ==
    Append(items, [description |-> "", quantity |-> 1, rate |-> 0, amount |-> 0])

\* EditInvoice.updateItem
EditUpdateItemIn(items, index, field, value) ==
    [items EXCEPT ![index] = UpdatedItem(@, field, value)]

\* EditInvoice.removeItem
EditRemoveItemFrom(items, index) ==
    [k \in 1..(Len(items) - 1) |-> IF k < index THEN items[k] ELSE items[k + 1]]

EditAddItem(e) ==
    /\ ef[e].pc = "open"
    /\ Len(ef[e].items) < MaxItems
    /\ ef' = [ef EXCEPT ![e].items = EditAddItemTo(@)]
    /\ UNCHANGED <<invoices, cf, ledger>>

EditUpdateItem(e, index, field, value) ==
    /\ ef[e].pc = "open"
    /\ index \in 1..Len(ef[e].items)
    /\ ef[e].items[index][field] # value
    /\ ef' = [ef EXCEPT ![e].items = EditUpdateItemIn(@, index, field, value)]
    /\ UNCHANGED <<invoices, cf, ledger>>

EditRemoveItem(e, index) ==
    /\ ef[e].pc = "open"
    /\ index \in 1..Len(ef[e].items)
    /\ ef' = [ef EXCEPT ![e].items = EditRemoveItemFrom(@, index)]
    /\ UNCHANGED <<invoices, cf, ledger>>

\* form.handleSubmit(onSubmit) of the edit form, up to the await of update.
EditOnSubmit(f) ==
    IF invoiceSchema(f) # {} THEN [f EXCEPT !.formErrors = invoiceSchema(f)]
    ELSE IF Len(f.items) = 0
    THEN [f EXCEPT !.formErrors = {}, !.toast = ToastNoItems]
    ELSE [f EXCEPT !.formErrors = {}, !.loading = TRUE, !.pc = "saving",
                   !.error = "", !.inflight = <<ColumnValues(f)>>]

SubmitEdit(e) ==
    /\ ef[e].pc = "open"
    /\ ~ef[e].loading
    /\ ef' = [ef EXCEPT ![e] = EditOnSubmit(@)]
    /\ UNCHANGED <<invoices, cf, ledger>>

EditOnError(f, error) ==
    [f EXCEPT !.pc = "open", !.loading = FALSE, !.inflight = <<>>,
              !.toast = ToastUpdateFail, !.error = error]

EditOnSuccess(f) == [EditDefaults EXCEPT !.toast = ToastUpdateOk]

UpdateReturn(e, reached) ==
    /\ ef[e].pc = "saving"
    /\ LET res == IF reached
                  THEN UpdateInvoice(invoices, ef[e].id, SessionUser(e),
                                     Head(ef[e].inflight))
                  ELSE [error |-> "other", rows |-> invoices]
       IN  /\ invoices' = res.rows
           /\ ef' = [ef EXCEPT ![e] = IF res.error = "" THEN EditOnSuccess(@)
                                      ELSE EditOnError(@, res.error)]
    /\ UNCHANGED <<cf, ledger>>

\* ----------------------------------------------------------------- ledger
\* The status values the ledger's select offers.
Statuses == {"draft", "sent", "paid"}

\* updateStatusMutation of the invoice ledger of user u, for a listed invoice.
UpdateStatus(u, id, status) ==
    /\ \E r \in invoices : r.id = id /\ r.user_id = u /\ r.status # status
    /\ invoices' = UpdateStatusRows(invoices, id, u, status)
    /\ UNCHANGED <<cf, ef, ledger>>

\* ---------------------------------------------------------------- clients
\* handleDelete of the client list of user u: the client is deleted and, by
\* ON DELETE CASCADE of invoices.client_id, the invoices made out to it.  The
\* forms offer a user their own clients only, so these are invoices of u:
\* gone is the set of invoices of the deleted client.
DeleteClient(u, gone) ==
    /\ gone # {}
    /\ gone \subseteq {r \in invoices : r.user_id = u}
    /\ invoices' = invoices \ gone
    /\ UNCHANGED <<cf, ef, ledger>>

\* ------------------------------------------------------------ ledger page
\* The user whose invoice ledger is open.
LedgerUser == "u1"

\* What the embedded resource clients(name, company_name) of a fetched invoice
\* can be.  "" stands for the values that are falsy in the code: a null
\* company_name, and both fields of a row that came back without client data.
NoClient == [name |-> "", company_name |-> ""]
ClientPool ==
    {NoClient,
     [name |-> "Asha", company_name |-> ""],
     [name |-> "Ravi", company_name |-> "Acme"],
     [name |-> "all", company_name |-> ""]}

\* useState defaults of InvoiceLedger; data is the result of the query, output
\* the document the last view or export produced.
NoOutput == [kind |-> "none", id |-> 0, block |-> {}]
LedgerDefaults ==
    [pc |-> "closed", data |-> {}, statusFilter |-> "all",
     clientFilter |-> "all", output |-> NoOutput]

\* queryFn of the ledger: the invoices of user, each with its client embedded.
LedgerQuery(rows, user, clientOf) ==
    {[invoice |-> r, clients |-> clientOf[r.id]] : r \in {x \in rows : x.user_id = user}}

\* inv.clients?.company_name || inv.clients?.name
DisplayedClient(c) == IF c.company_name # "" THEN c.company_name ELSE c.name

\* uniqueClients: the entries of the client filter below "All Clients" (the
\* code sorts them; their order plays no part here).
uniqueClients(data) ==
    {IF DisplayedClient(d.clients) # "" THEN DisplayedClient(d.clients) ELSE "Unknown"
     : d \in data}

\* filteredInvoices
filteredInvoices(data, statusFilter, clientFilter) ==
    {d \in data :
        /\ (statusFilter = "all" \/ d.invoice.status = statusFilter)
        /\ (clientFilter = "all" \/ DisplayedClient(d.clients) = clientFilter)}

\* Fraction digits of toLocaleString('en-IN') (at most) and of toFixed(2).
LocaleDigits == 3
FixedDigits == 2

\* The numbers a formatter with the given fraction digits can print for v: the
\* nearest one, and either neighbour when v lies half way between two, where
\* the binary value of the number decides.
Renderings(v, digits) ==
    LET unit == Pow10(4 - digits)
        lo == (v \div unit) * unit
    IN  IF 2 * (v - lo) < unit THEN {lo}
        ELSE IF 2 * (v - lo) > unit THEN {lo + unit}
        ELSE {lo, lo + unit}

TaxNames == {"igst", "sgst", "cgst"}
TaxAmount(invoice, x) ==
    IF x = "igst" THEN invoice.igst_amount
    ELSE IF x = "sgst" THEN invoice.sgst_amount ELSE invoice.cgst_amount

\* The totals blocks a renderer can print from a subtotal, the three tax
\* amounts (a tax line is printed when its amount is above 0) and a total.
TotalsBlocks(subtotal, taxes, total) ==
    LET lines == {x \in TaxNames : taxes[x] > 0} IN
    {[subtotal |-> s, taxes |-> t, total |-> g] :
        s \in Renderings(subtotal, LocaleDigits),
        t \in {f \in [lines -> UNION {Renderings(taxes[x], LocaleDigits) : x \in lines}] :
                 \A x \in lines : f[x] \in Renderings(taxes[x], LocaleDigits)},
        g \in Renderings(total, LocaleDigits)}

\* Renderers that compute the totals again from the stored items and rates.
RecomputedBlocks(invoice) ==
    LET t == calculateTotals(invoice.items, invoice.igst_rate, invoice.sgst_rate,
                             invoice.cgst_rate)
    IN  TotalsBlocks(t.subtotal,
                     [x \in TaxNames |-> IF x = "igst" THEN t.igstAmount
                                         ELSE IF x = "sgst" THEN t.sgstAmount
                                         ELSE t.cgstAmount],
                     t.total)

\* The totals section of generateInvoicePDF.
generateInvoicePDF(invoice) ==
    TotalsBlocks(invoice.subtotal, [x \in TaxNames |-> TaxAmount(invoice, x)],
                 invoice.total_amount)

\* The totals section of the HTML generateInvoiceJPEG renders.
generateInvoiceJPEG(invoice) ==
    TotalsBlocks(invoice.subtotal, [x \in TaxNames |-> TaxAmount(invoice, x)],
                 invoice.total_amount)

\* The totals section of the page ViewInvoice.
ViewInvoiceTotals(invoice) ==
    TotalsBlocks(invoice.subtotal, [x \in TaxNames |-> TaxAmount(invoice, x)],
                 invoice.total_amount)

\* The summary rows of exportToCSV: the column values as they are.
exportToCSV(invoice) ==
    {[subtotal |-> invoice.subtotal,
      taxes |-> [x \in TaxNames |-> TaxAmount(invoice, x)],
      total |-> invoice.total_amount]}

\* The rows exportTableToCSV can write for the listed invoices: the total and
\* the sum of the three tax amounts, each with two fraction digits.
exportTableToCSV(listed) ==
    {f \in [{d.invoice.id : d \in listed} ->
              UNION {{[amount |-> a, gst |-> g] :
                        a \in Renderings(d.invoice.total_amount, FixedDigits),
                        g \in Renderings(d.invoice.igst_amount + d.invoice.cgst_amount
                                         + d.invoice.sgst_amount, FixedDigits)}
                     : d \in listed}] :
        \A d \in listed :
            /\ f[d.invoice.id].amount \in Renderings(d.invoice.total_amount, FixedDigits)
            /\ f[d.invoice.id].gst \in
                 Renderings(d.invoice.igst_amount + d.invoice.cgst_amount
                            + d.invoice.sgst_amount, FixedDigits)}

\* Mount of InvoiceLedger: the query runs and its result is shown.
OpenLedger(clientOf) ==
    /\ ledger.pc = "closed"
    /\ ledger' = [ledger EXCEPT !.pc = "open",
                                !.data = LedgerQuery(invoices, LedgerUser, clientOf)]
    /\ UNCHANGED <<invoices, cf, ef>>

\* invalidateQueries(['invoices']): the query runs again; the clients are the
\* ones the page showed before.
Refetched(rows, data) ==
    UNION {{[invoice |-> r, clients |-> d.clients] :
              d \in {x \in data : x.invoice.id = r.id}} : r \in rows}

RefetchLedger ==
    /\ ledger.pc = "open"
    /\ ledger.data # Refetched(invoices, ledger.data)
    /\ ledger' = [ledger EXCEPT !.data = Refetched(invoices, ledger.data)]
    /\ UNCHANGED <<invoices, cf, ef>>

\* setStatusFilter, from the entries of the status select.
setStatusFilter(v) ==
    /\ ledger.pc = "open"
    /\ v # ledger.statusFilter
    /\ ledger' = [ledger EXCEPT !.statusFilter = v]
    /\ UNCHANGED <<invoices, cf, ef>>

\* setClientFilter, from the entries of the client select.
setClientFilter(v) ==
    /\ ledger.pc = "open"
    /\ v \in {"all"} \cup uniqueClients(ledger.data)
    /\ v # ledger.clientFilter
    /\ ledger' = [ledger EXCEPT !.clientFilter = v]
    /\ UNCHANGED <<invoices, cf, ef>>

\* A renderer runs for a listed invoice and its document is kept as output.
Render(kind, id, blocks) ==
    /\ ledger.pc = "open"
    /\ \E b \in blocks :
          ledger' = [ledger EXCEPT !.output = [kind |-> kind, id |-> id, block |-> b]]
    /\ UNCHANGED <<invoices, cf, ef>>

Listed == filteredInvoices(ledger.data, ledger.statusFilter, ledger.clientFilter)

downloadInvoiceJPEG(id) ==
    \E d \in Listed : d.invoice.id = id /\ Render("jpeg", id, generateInvoiceJPEG(d.invoice))

DownloadCsv(id) ==
    \E d \in Listed : d.invoice.id = id /\ Render("csv", id, exportToCSV(d.invoice))

\* exportTableToCSV returns early when nothing is listed.
DownloadTableCsv ==
    /\ Listed # {}
    /\ Render("table", 0, exportTableToCSV(Listed))

\* The page ViewInvoice of a listed invoice: it reads the row again.
ViewInvoice(id) ==
    \E r \in invoices :
        /\ r.id = id /\ r.user_id = LedgerUser
        /\ Render("view", id, ViewInvoiceTotals(r))

\* handleDownloadPDF of the page ViewInvoice, for the row the page read.
handleDownloadPDF(id) ==
    \E r \in invoices :
        /\ r.id = id /\ r.user_id = LedgerUser
        /\ Render("pdf", id, generateInvoicePDF(r))

\* ------------------------------------------------------------------ inputs
\* What the user types into an invoice-number field: nothing (the field is
\* cleared), a number, a text that is not a number.
TypedNumbers == {<<>>, <<"2">>, <<"A", "1">>}

\* Values typed into the quantity, rate and description inputs of an item
\* (10.25 in the representation of money) and into the tax-rate inputs.
QuantityInputs == {1, 2}
RateInputs == {0, 1025 * Paisa}
DescriptionInputs == {"", "work"}
IgstInputs == {0, 18}
SgstInputs == {0, 9}
CgstInputs == {0, 9}

\* The table after the create form of user has stored invoices with the given
\* numbers on top of rows (one item each, tax rates 0).
RECURSIVE EarlierInvoices(_, _, _)
EarlierInvoices(rows, user, numbers) ==
    IF numbers = {} THEN rows
    ELSE LET n == CHOOSE x \in numbers : TRUE
             f == [CreateDefaults EXCEPT !.invoiceNumber = n,
                                         !.items = CreateAddItemTo(<<>>)]
             v == [user_id |-> user, status |-> "draft"] @@ ColumnValues(f)
         IN  EarlierInvoices(InsertInvoice(rows, v).rows, user, numbers \ {n})

\* ----------------------------------------------- specification of the store
\* Two create forms and one edit form of user u1 work on a table that holds an
\* invoice of user u2.  Each form gets one line item; the invoice numbers vary.
Init ==
    /\ invoices = EarlierInvoices({}, "u2", {<<"1">>})
    /\ cf = [s \in CreateSessions |-> CreateDefaults]
    /\ ef = [e \in EditSessions |-> EditDefaults]
    /\ ledger = LedgerDefaults

InvoiceIds == {r.id : r \in invoices}

AddFirstItem(s) == cf[s].items = <<>> /\ AddItem(s)

NextCreate ==
    \/ \E s \in CreateSessions : OpenCreate(s)
    \/ \E s \in CreateSessions : ReceiveNumber(s, TRUE)
    \/ \E s \in CreateSessions : ReceiveNumber(s, FALSE)
    \/ \E s \in CreateSessions : \E t \in TypedNumbers : TypeNumber(s, t)
    \/ \E s \in CreateSessions : AddFirstItem(s)
    \/ \E s \in CreateSessions : SubmitCreate(s)
    \/ \E s \in CreateSessions : InsertReturn(s, TRUE)
    \/ \E s \in CreateSessions : InsertReturn(s, FALSE)

NextEdit ==
    \/ \E e \in EditSessions : \E id \in InvoiceIds : OpenEdit(e, id)
    \/ \E e \in EditSessions : EditLoaded(e)
    \/ \E e \in EditSessions : \E t \in TypedNumbers : EditTypeNumber(e, t)
    \/ \E e \in EditSessions : SubmitEdit(e)
    \/ \E e \in EditSessions : UpdateReturn(e, TRUE)
    \/ \E e \in EditSessions : UpdateReturn(e, FALSE)

Next == NextCreate \/ NextEdit

Spec == Init /\ [][Next]_vars

\* Create forms only.
SpecCreate == Init /\ [][NextCreate]_vars

\* ------------------------------------------- specifications of the forms
\* One create form and one edit form of user u1 on an empty table; the invoice
\* number is the suggested one.
FormSession == "c1"
FormEditSession == "e1"

InitForm ==
    /\ invoices = {}
    /\ cf = [s \in CreateSessions |-> CreateDefaults]
    /\ ef = [e \in EditSessions |-> EditDefaults]
    /\ ledger = LedgerDefaults

NextFormCreate ==
    \/ OpenCreate(FormSession)
    \/ ReceiveNumber(FormSession, TRUE)
    \/ AddItem(FormSession)
    \/ \E k \in 1..MaxItems : \E v \in RateInputs :
          UpdateItem(FormSession, k, "rate", v)
    \/ \E k \in 1..MaxItems : RemoveItem(FormSession, k)
    \/ SubmitCreate(FormSession)
    \/ InsertReturn(FormSession, TRUE)

NextFormEdit ==
    \/ \E id \in InvoiceIds : OpenEdit(FormEditSession, id)
    \/ EditLoaded(FormEditSession)
    \/ EditAddItem(FormEditSession)
    \/ \E i \in 1..MaxItems : \E v \in RateInputs :
          EditUpdateItem(FormEditSession, i, "rate", v)
    \/ \E i \in 1..MaxItems : EditRemoveItem(FormEditSession, i)
    \/ SubmitEdit(FormEditSession)
    \/ UpdateReturn(FormEditSession, TRUE)

NextFormRates ==
    \/ \E v \in IgstInputs : SetRate(FormSession, "igstRate", v)
    \/ \E v \in SgstInputs : SetRate(FormSession, "sgstRate", v)
    \/ \E v \in CgstInputs : SetRate(FormSession, "cgstRate", v)
    \/ \E v \in IgstInputs : EditSetRate(FormEditSession, "igstRate", v)
    \/ \E v \in SgstInputs : EditSetRate(FormEditSession, "sgstRate", v)
    \/ \E v \in CgstInputs : EditSetRate(FormEditSession, "cgstRate", v)

NextLedger ==
    \E u \in Users : \E id \in InvoiceIds : \E st \in Statuses : UpdateStatus(u, id, st)

\* Totals: the rate of each item and the three tax rates vary, and the ledger
\* changes the status of stored invoices.
NextForm == NextFormCreate \/ NextFormEdit \/ NextFormRates \/ NextLedger

SpecForm == InitForm /\ [][NextForm]_vars

NextFormFields ==
    \/ \E k \in 1..MaxItems : \E raw \in QuantityInputs :
          UpdateItem(FormSession, k, "quantity", CreateQuantityInput(raw))
    \/ \E k \in 1..MaxItems : \E v \in DescriptionInputs :
          UpdateItem(FormSession, k, "description", v)
    \/ \E i \in 1..MaxItems : \E v \in QuantityInputs :
          EditUpdateItem(FormEditSession, i, "quantity", v)
    \/ \E i \in 1..MaxItems : \E v \in DescriptionInputs :
          EditUpdateItem(FormEditSession, i, "description", v)

\* Line items: quantity, rate and description of each item vary, the tax
\* rates stay 0.
NextItems == NextFormCreate \/ NextFormEdit \/ NextFormFields

SpecItems == InitForm /\ [][NextItems]_vars

\* --------------------------------------- specification of the numbering
\* Invoice numbers user u1 may have stored before the create form opens.
StoredNumberPool ==
    {<<"3">>, <<"7">>, <<"a", "b", "c">>, <<"1", "0">>, <<"0", "0", "7">>,
     <<"1", "2", "a">>,
     <<"2", "0", "2", "6", "0", "1", "2", "8", "0", "0", "1">>,
     <<"2", "1", "4", "7", "4", "8", "3", "6", "4", "7">>}

\* The table holds any subset of the pool for user u1 and number "99" for
\* user u2; the create forms open and ask for the next number.
InitNumbering ==
    /\ \E S \in SUBSET StoredNumberPool :
          invoices = EarlierInvoices(EarlierInvoices({}, "u2", {<<"9", "9">>}), "u1", S)
    /\ cf = [s \in CreateSessions |-> CreateDefaults]
    /\ ef = [e \in EditSessions |-> EditDefaults]
    /\ ledger = LedgerDefaults

NextNumbering ==
    \/ \E s \in CreateSessions : OpenCreate(s)
    \/ \E s \in CreateSessions : ReceiveNumber(s, TRUE)
    \/ \E s \in CreateSessions : ReceiveNumber(s, FALSE)

SpecNumbering == InitNumbering /\ [][NextNumbering]_vars

\* ------------------------------------- specification of the calculator
\* Item rates 50.00 and 100.00.
WholeRateInputs == {50 * Rupee, 100 * Rupee}

\* One create form: quantity and rate of each item and the three tax rates vary.
NextCalculator ==
    \/ OpenCreate(FormSession)
    \/ ReceiveNumber(FormSession, TRUE)
    \/ AddItem(FormSession)
    \/ \E k \in 1..MaxItems : \E raw \in QuantityInputs :
          UpdateItem(FormSession, k, "quantity", CreateQuantityInput(raw))
    \/ \E k \in 1..MaxItems : \E v \in WholeRateInputs :
          UpdateItem(FormSession, k, "rate", v)
    \/ \E k \in 1..MaxItems : RemoveItem(FormSession, k)
    \/ \E v \in IgstInputs : SetRate(FormSession, "igstRate", v)
    \/ \E v \in SgstInputs : SetRate(FormSession, "sgstRate", v)
    \/ \E v \in CgstInputs : SetRate(FormSession, "cgstRate", v)

SpecCalculator == InitForm /\ [][NextCalculator]_vars

\* --------------------------------------- specification of the tax rates
\* Values typed into a tax-rate field, inside and outside 0..100.
TaxRateInputs == {-1, 0, 9, 100, 101}

TaxRateFields == {"igstRate", "sgstRate", "cgstRate"}

\* A create form and an edit form with one item: the rate of the item and
\* the three tax rates vary.
NextTaxRates ==
    \/ OpenCreate(FormSession)
    \/ ReceiveNumber(FormSession, TRUE)
    \/ AddFirstItem(FormSession)
    \/ \E v \in RateInputs : UpdateItem(FormSession, 1, "rate", v)
    \/ \E x \in TaxRateFields : \E v \in TaxRateInputs : SetRate(FormSession, x, v)
    \/ SubmitCreate(FormSession)
    \/ InsertReturn(FormSession, TRUE)
    \/ \E id \in InvoiceIds : OpenEdit(FormEditSession, id)
    \/ EditLoaded(FormEditSession)
    \/ \E x \in TaxRateFields : \E v \in TaxRateInputs :
          EditSetRate(FormEditSession, x, v)
    \/ SubmitEdit(FormEditSession)
    \/ UpdateReturn(FormEditSession, TRUE)

SpecTaxRates == InitForm /\ [][NextTaxRates]_vars

\* ------------------------------------- specification of the item inputs
\* Numbers typed into the quantity and the rate input of an item; an emptied
\* input reads as 0 in the edit form (Number("")).
KeyedQuantities == {-1, 0, 1, 2}
KeyedRates == {0 - Rupee, 0, 1025 * Paisa}

\* onChange of the rate input of the create form: parseFloat(value) || 0.
CreateRateInput(raw) == IF raw = 0 THEN 0 ELSE raw

\* onChange of the quantity and rate inputs of the edit form: Number(value).
EditNumberInput(raw) == raw

\* A create form and an edit form with one item: its quantity and its rate
\* are typed, and the IGST rate is set.
NextInputs ==
    \/ OpenCreate(FormSession)
    \/ ReceiveNumber(FormSession, TRUE)
    \/ AddFirstItem(FormSession)
    \/ \E raw \in KeyedQuantities :
          UpdateItem(FormSession, 1, "quantity", CreateQuantityInput(raw))
    \/ \E raw \in KeyedRates :
          UpdateItem(FormSession, 1, "rate", CreateRateInput(raw))
    \/ SubmitCreate(FormSession)
    \/ InsertReturn(FormSession, TRUE)
    \/ \E id \in InvoiceIds : OpenEdit(FormEditSession, id)
    \/ EditLoaded(FormEditSession)
    \/ \E raw \in KeyedQuantities :
          EditUpdateItem(FormEditSession, 1, "quantity", EditNumberInput(raw))
    \/ \E raw \in KeyedRates :
          EditUpdateItem(FormEditSession, 1, "rate", EditNumberInput(raw))
    \/ \E v \in IgstInputs : SetRate(FormSession, "igstRate", v)
    \/ \E v \in IgstInputs : EditSetRate(FormEditSession, "igstRate", v)
    \/ SubmitEdit(FormEditSession)
    \/ UpdateReturn(FormEditSession, TRUE)

SpecInputs == InitForm /\ [][NextInputs]_vars

\* ------------------------------------------ specification of the scoping
\* User u1 holds invoices "3" and "A1" and opens a create form; user u2 holds
\* "99", creates an invoice, renames invoices in the edit form and deletes
\* clients, as does user u1.
InitScope ==
    /\ invoices = EarlierInvoices(EarlierInvoices({}, "u2", {<<"9", "9">>}),
                                  "u1", {<<"3">>, <<"A", "1">>})
    /\ cf = [s \in CreateSessions \cup OtherCreateSessions |-> CreateDefaults]
    /\ ef = [e \in EditSessions \cup OtherEditSessions |-> EditDefaults]
    /\ ledger = LedgerDefaults

ScopeCreateSessions == {FormSession} \cup OtherCreateSessions

NextScope ==
    \/ \E s \in ScopeCreateSessions : OpenCreate(s)
    \/ \E s \in ScopeCreateSessions : ReceiveNumber(s, TRUE)
    \/ \E s \in OtherCreateSessions : AddFirstItem(s)
    \/ \E s \in OtherCreateSessions : SubmitCreate(s)
    \/ \E s \in OtherCreateSessions : InsertReturn(s, TRUE)
    \/ \E e \in OtherEditSessions : \E id \in InvoiceIds : OpenEdit(e, id)
    \/ \E e \in OtherEditSessions : EditLoaded(e)
    \/ \E e \in OtherEditSessions : \E t \in TypedNumbers : EditTypeNumber(e, t)
    \/ \E e \in OtherEditSessions : SubmitEdit(e)
    \/ \E e \in OtherEditSessions : UpdateReturn(e, TRUE)
    \/ \E u \in Users : \E gone \in SUBSET invoices : DeleteClient(u, gone)

SpecScope == InitScope /\ [][NextScope]_vars

\* ------------------------------------------ specification of the ledger
\* The create form as it stands when an invoice with one item at 10.25 and
\* the given number and tax rates is submitted.
LedgerForm(number, igst, sgst, cgst) ==
    [CreateDefaults EXCEPT
        !.invoiceNumber = number,
        !.items = CreateUpdateItemIn(CreateAddItemTo(<<>>), 1, "rate", 1025 * Paisa),
        !.igstRate = igst, !.sgstRate = sgst, !.cgstRate = cgst]

\* The table after user has created an invoice from form f.
WithInvoice(rows, user, f) ==
    InsertInvoice(rows, [user_id |-> user, status |-> "draft"] @@ ColumnValues(f)).rows

\* User u1 has an invoice with IGST and one with SGST and CGST, user u2 has one
\* invoice; the ledger of u1 is opened, filtered, and its invoices are viewed,
\* exported and marked.
InitLedger ==
    /\ invoices =
         WithInvoice(
           WithInvoice(
             WithInvoice({}, "u1", LedgerForm(<<"1">>, 18, 0, 0)),
             "u1", LedgerForm(<<"2">>, 0, 9, 9)),
           "u2", LedgerForm(<<"1">>, 0, 0, 0))
    /\ cf = [s \in CreateSessions |-> CreateDefaults]
    /\ ef = [e \in EditSessions |-> EditDefaults]
    /\ ledger = LedgerDefaults

OwnIds == {r.id : r \in {x \in invoices : x.user_id = LedgerUser}}

NextLedgerPage ==
    \/ \E clientOf \in [OwnIds -> ClientPool] : OpenLedger(clientOf)
    \/ RefetchLedger
    \/ \E v \in {"all"} \cup Statuses : setStatusFilter(v)
    \/ \E v \in {"all", "Unknown", "Asha", "Acme"} : setClientFilter(v)
    \/ \E id \in InvoiceIds : UpdateStatus(LedgerUser, id, "paid")
    \/ \E id \in InvoiceIds : handleDownloadPDF(id)
    \/ \E id \in InvoiceIds : downloadInvoiceJPEG(id)
    \/ \E id \in InvoiceIds : DownloadCsv(id)
    \/ DownloadTableCsv
    \/ \E id \in InvoiceIds : ViewInvoice(id)

SpecLedger == InitLedger /\ [][NextLedgerPage]_vars

\* ------------------------------------------- specification of the edits
\* Users u1 and u2 have invoices; each has an edit form, opened for any stored
\* id, and changes the number (u1 the IGST rate as well); both mark invoices
\* as paid in their ledgers.
AllEditSessions == EditSessions \cup OtherEditSessions

NextEdits ==
    \/ \E e \in AllEditSessions : \E id \in InvoiceIds : OpenEdit(e, id)
    \/ \E e \in AllEditSessions : EditLoaded(e)
    \/ \E e \in AllEditSessions : \E t \in TypedNumbers : EditTypeNumber(e, t)
    \/ \E e \in EditSessions : \E v \in IgstInputs : EditSetRate(e, "igstRate", v)
    \/ \E e \in AllEditSessions : SubmitEdit(e)
    \/ \E e \in AllEditSessions : UpdateReturn(e, TRUE)
    \/ \E u \in Users : \E id \in InvoiceIds : UpdateStatus(u, id, "paid")

SpecEdits == InitScope /\ [][NextEdits]_vars

\* ================================================================ claims
\* The forms that are on screen, each as a record with items and tax rates.
MountedForms ==
    {cf[s] : s \in {x \in CreateSessions : cf[x].pc \in {"open", "saving"}}}
    \cup {ef[e] : e \in {x \in EditSessions : ef[x].pc \in {"open", "saving"}}}

TotalsOf(f) == calculateTotals(f.items, f.igstRate, f.sgstRate, f.cgstRate)

RECURSIVE SumProducts(_)
SumProducts(items) ==
    IF items = <<>> THEN 0
    ELSE Head(items).quantity * Head(items).rate + SumProducts(Tail(items))

\* C1: every line item held by a create form or an edit form has
\* amount = quantity * rate, after any sequence of addItem, updateItem (of
\* quantity, rate or description) and removeItem, for items added in the form
\* and for items the edit form loaded from a saved invoice.
AmountIsQuantityTimesRate ==
    /\ \A s \in CreateSessions : \A k \in 1..Len(cf[s].items) :
          cf[s].items[k].amount = cf[s].items[k].quantity * cf[s].items[k].rate
    /\ \A e \in EditSessions : \A k \in 1..Len(ef[e].items) :
          ef[e].items[k].amount = ef[e].items[k].quantity * ef[e].items[k].rate

\* C1 witness: the edit form holds an item it loaded from the saved invoice
\* (quantity 2, rate 10.25, a description) next to one whose rate was changed.
AmountWitness ==
    \E e \in EditSessions : \E r \in invoices :
        /\ ef[e].pc = "open" /\ r.id = ef[e].id
        /\ Len(ef[e].items) = 2 /\ Len(r.items) = 2
        /\ ef[e].items[1] = r.items[1]
        /\ ef[e].items[1].quantity = 2
        /\ ef[e].items[1].amount = 2 * 1025 * Paisa
        /\ ef[e].items[1].description = "work"
        /\ ef[e].items[2].rate # r.items[2].rate

\* C2: for every item list a form holds, the subtotal of calculateTotals is
\* the sum over the items of quantity * rate.  (calculateTotals is a function
\* of the form state, so a second call on the same state returns the same.)
SubtotalIsSumOfProducts ==
    \A f \in MountedForms : TotalsOf(f).subtotal = SumProducts(f.items)

\* C2 witness: a form with two items of different quantities, both with a rate.
SubtotalWitness ==
    \E f \in MountedForms :
        /\ Len(f.items) = 2
        /\ f.items[1].quantity = 2 /\ f.items[2].quantity = 1
        /\ f.items[1].rate > 0 /\ f.items[2].rate > 0
        /\ TotalsOf(f).subtotal = 3 * 1025 * Paisa

\* C3: each tax amount is subtotal * rate / 100, the tax total is the sum of
\* the three and the total is subtotal + tax total, for every item list and
\* every triple of rates of a form; one item of quantity 1 and rate 1000 at
\* IGST 18 gives subtotal 1000, IGST amount 180 and total 1180.
TaxAmountsAndTotal ==
    /\ \A f \in MountedForms :
          LET t == TotalsOf(f) IN
          /\ t.igstAmount * 100 = t.subtotal * f.igstRate
          /\ t.sgstAmount * 100 = t.subtotal * f.sgstRate
          /\ t.cgstAmount * 100 = t.subtotal * f.cgstRate
          /\ t.totalTax = t.igstAmount + t.sgstAmount + t.cgstAmount
          /\ t.total = t.subtotal + t.totalTax
    /\ LET item == [description |-> "", quantity |-> 1,
                    rate |-> 1000 * Rupee, amount |-> 1000 * Rupee]
           t == calculateTotals(<<item>>, 18, 0, 0)
       IN  /\ t.subtotal = 1000 * Rupee
           /\ t.igstAmount = 180 * Rupee
           /\ t.sgstAmount = 0 /\ t.cgstAmount = 0
           /\ t.total = 1180 * Rupee

\* C3 witness: a form with a subtotal above 0 and all three rates above 0.
TaxWitness ==
    \E f \in MountedForms :
        /\ TotalsOf(f).subtotal = 2 * 1025 * Paisa
        /\ f.igstRate = 18 /\ f.sgstRate = 9 /\ f.cgstRate = 9
        /\ TotalsOf(f).cgstAmount > 0

\* C4: with an empty item list calculateTotals gives subtotal 0, every tax
\* amount 0 and total 0, whatever the three rates.
EmptyItemsGiveZero ==
    \A f \in MountedForms :
        f.items = <<>> =>
            LET t == TotalsOf(f) IN
            /\ t.subtotal = 0 /\ t.igstAmount = 0 /\ t.sgstAmount = 0
            /\ t.cgstAmount = 0 /\ t.totalTax = 0 /\ t.total = 0

\* C4 witness: a form without items whose three rates are above 0.
EmptyItemsWitness ==
    \E f \in MountedForms :
        f.items = <<>> /\ f.igstRate = 18 /\ f.sgstRate = 9 /\ f.cgstRate = 9

\* Decimal arithmetic on digit texts, free of any integer width.
RECURSIVE StripLeadingZeros(_)
StripLeadingZeros(t) ==
    IF Len(t) > 1 /\ Head(t) = "0" THEN StripLeadingZeros(Tail(t)) ELSE t

RECURSIVE DigitsLeq(_, _)
DigitsLeq(a, b) ==
    IF a = <<>> THEN TRUE
    ELSE IF DigitVal(Head(a)) < DigitVal(Head(b)) THEN TRUE
    ELSE IF DigitVal(Head(a)) > DigitVal(Head(b)) THEN FALSE
    ELSE DigitsLeq(Tail(a), Tail(b))

\* a <= b for decimal texts without leading zeros.
DecimalLeq(a, b) == Len(a) < Len(b) \/ (Len(a) = Len(b) /\ DigitsLeq(a, b))

\* The decimal text of n + 1 for the decimal text of n.
RECURSIVE DecimalSucc(_)
DecimalSucc(t) ==
    IF t = <<>> THEN <<"1">>
    ELSE LET front == SubSeq(t, 1, Len(t) - 1)
             last  == t[Len(t)]
         IN  IF last = "9" THEN DecimalSucc(front) \o <<"0">>
             ELSE front \o <<DigitChars[DigitVal(last) + 2]>>

\* The decimal text of m + 1, m the largest value among the user's invoice
\* numbers that consist only of digits, or 0 when there is none.
MaxPlusOne(rows, user) ==
    LET D == {StripLeadingZeros(r.invoice_number) :
                 r \in {x \in rows : x.user_id = user /\ IsAllDigits(x.invoice_number)}}
    IN  IF D = {} THEN <<"1">>
        ELSE IF D = {<<"0">>} THEN <<"1">>
        ELSE DecimalSucc(CHOOSE m \in D : \A x \in D : DecimalLeq(x, m))

\* C5: for any set of invoice numbers a user has stored, the answer of
\* get_next_invoice_number is the decimal text of m + 1, m the largest value
\* among the numbers that consist only of digits, or 0 when there is none.
NextNumberIsMaxPlusOne ==
    \A s \in CreateSessions :
        (cf[s].numReq = "done" /\ cf[s].rpc # "neterror") =>
            /\ cf[s].rpc = "data"
            /\ cf[s].invoiceNumber = MaxPlusOne(invoices, SessionUser(s))

\* C5, for the numbers the INTEGER arithmetic of the function can hold: the
\* same, when every all-digit number of the user is below 2147483647.
NextNumberIsMaxPlusOneInRange ==
    \A s \in CreateSessions :
        (/\ cf[s].numReq = "done" /\ cf[s].rpc # "neterror"
         /\ \A r \in invoices :
               (r.user_id = SessionUser(s) /\ IsAllDigits(r.invoice_number)) =>
                   /\ CastInteger(r.invoice_number) # -1
                   /\ CastInteger(r.invoice_number) < IntegerMax) =>
            /\ cf[s].rpc = "data"
            /\ cf[s].invoiceNumber = MaxPlusOne(invoices, SessionUser(s))

\* The answer for the numbers "3", "7", "abc", "10" is "11".
NextNumberExampleWitness ==
    \E s \in CreateSessions :
        /\ cf[s].numReq = "done" /\ cf[s].rpc = "data"
        /\ {r.invoice_number : r \in {x \in invoices : x.user_id = SessionUser(s)}}
              = {<<"3">>, <<"7">>, <<"a", "b", "c">>, <<"1", "0">>}
        /\ cf[s].invoiceNumber = <<"1", "1">>

\* C6: in every reachable state of the table no two invoices of one user
\* have the same invoice_number, whatever creations and edits (an edit may
\* change the number) the sessions interleave.
UniquePerUser ==
    \A a \in invoices : \A b \in invoices :
        (a.user_id = b.user_id /\ a.invoice_number = b.invoice_number) => a = b

\* C6 witness: user u1 has two invoices, holds number "1" like user u2, and
\* an edit that tried to take the number of the other invoice was refused.
UniqueWitness ==
    /\ Cardinality({r \in invoices : r.user_id = "u1"}) = 2
    /\ \E a \in invoices : \E b \in invoices :
          a.user_id = "u1" /\ b.user_id = "u2" /\ a.invoice_number = b.invoice_number
    /\ \E e \in EditSessions : \E r \in invoices :
          /\ ef[e].pc = "open" /\ ef[e].error = "23505"
          /\ r.id # ef[e].id /\ r.user_id = SessionUser(e)
          /\ r.invoice_number = ef[e].invoiceNumber

\* The outcome of the last submit of create session s.
Created(s) == cf[s].pc = "done"
RejectedUnique(s) == cf[s].pc = "open" /\ cf[s].error = "23505"

\* C7: of the create sessions of one user whose last submit sent the same
\* invoice number and was answered by the table, exactly one was stored and
\* every other was rejected by UNIQUE(user_id, invoice_number); and a pending
\* next-number request can always be answered, whatever the other sessions hold.
RaceIsDetected ==
    /\ \A s \in CreateSessions : \A t \in CreateSessions :
          (/\ s # t /\ SessionUser(s) = SessionUser(t)
           /\ cf[s].sent = cf[t].sent
           /\ Created(s) \/ RejectedUnique(s)
           /\ Created(t) \/ RejectedUnique(t))
          => (Created(s) /\ RejectedUnique(t)) \/ (RejectedUnique(s) /\ Created(t))
    /\ \A s \in CreateSessions :
          cf[s].numReq = "pending" => ENABLED ReceiveNumber(s, TRUE)

\* C7 witness: both sessions of u1 were given the suggestion "1" and sent it;
\* one is stored, the other was rejected and still shows the number.
RaceWitness ==
    \E s \in CreateSessions : \E t \in CreateSessions :
        /\ s # t /\ SessionUser(s) = SessionUser(t)
        /\ cf[s].sent = <<"1">> /\ cf[t].sent = <<"1">>
        /\ Created(s) /\ RejectedUnique(t)
        /\ cf[t].rpc = "data" /\ cf[t].invoiceNumber = <<"1">>
        /\ Cardinality({r \in invoices : r.user_id = SessionUser(s)
                                         /\ r.invoice_number = <<"1">>}) = 1

\* C8: when the insert of a create form is rejected, the form reports the
\* failure and nothing else happens: the table is unchanged, no insert is in
\* flight, no number request is started, and items, rates and invoice number
\* of the form are kept.
RejectedInsertStep(s) ==
    cf[s].pc = "saving" /\ cf'[s].pc # "saving" /\ cf'[s].pc # "done"

FailureOnlyReported ==
    [][\A s \in CreateSessions :
          RejectedInsertStep(s) =>
              /\ invoices' = invoices
              /\ cf'[s].toast = ToastCreateFail
              /\ cf'[s].pc = "open" /\ ~cf'[s].loading
              /\ cf'[s].inflight = <<>>
              /\ cf'[s].numReq = cf[s].numReq
              /\ cf'[s].items = cf[s].items
              /\ cf'[s].igstRate = cf[s].igstRate
              /\ cf'[s].sgstRate = cf[s].sgstRate
              /\ cf'[s].cgstRate = cf[s].cgstRate
              /\ cf'[s].invoiceNumber = cf[s].invoiceNumber]_vars

\* C8 witness: a create form after a uniqueness conflict: failure reported,
\* items and the number it sent still in the form, nothing in flight.
FailureWitness ==
    \E s \in CreateSessions :
        /\ cf[s].pc = "open" /\ cf[s].error = "23505"
        /\ cf[s].toast = ToastCreateFail
        /\ cf[s].items # <<>> /\ cf[s].invoiceNumber = cf[s].sent
        /\ cf[s].inflight = <<>> /\ cf[s].numReq = "done"

\* C9: every stored invoice has subtotal = sum of its items' amounts, each
\* tax amount = subtotal * the rate of that tax / 100, and
\* total_amount = subtotal + the three tax amounts; a status change in the
\* ledger keeps it so.
StoredTotalsConsistent ==
    \A r \in invoices :
        /\ r.subtotal = SumProducts(r.items)
        /\ r.igst_amount * 100 = r.subtotal * r.igst_rate
        /\ r.sgst_amount * 100 = r.subtotal * r.sgst_rate
        /\ r.cgst_amount * 100 = r.subtotal * r.cgst_rate
        /\ r.total_amount = r.subtotal + r.igst_amount + r.sgst_amount + r.cgst_amount

\* C9 without the total: subtotal and the three tax amounts of every stored
\* invoice are the ones of its items and rates.
StoredSubtotalAndTaxes ==
    \A r \in invoices :
        /\ r.subtotal = SumProducts(r.items)
        /\ r.igst_amount * 100 = r.subtotal * r.igst_rate
        /\ r.sgst_amount * 100 = r.subtotal * r.sgst_rate
        /\ r.cgst_amount * 100 = r.subtotal * r.cgst_rate
        /\ r.total_amount = RoundDecimal(r.subtotal + r.igst_amount
                                         + r.sgst_amount + r.cgst_amount)

\* C10: the invoice number a create form sends is the value of its
\* invoice-number field at the submit; the number of the row a successful
\* create adds is the number sent; and no step of a form whose field is empty
\* starts an insert.
SubmitStep(s) == cf[s].pc = "open" /\ cf'[s].pc = "saving"
CreatedStep(s) == cf[s].pc = "saving" /\ cf'[s].pc = "done"

StoredNumberIsFieldAtSubmit ==
    [][\A s \in CreateSessions :
          /\ SubmitStep(s) =>
                /\ cf[s].invoiceNumber # <<>>
                /\ Head(cf'[s].inflight).invoice_number = cf[s].invoiceNumber
                /\ cf'[s].sent = cf[s].invoiceNumber
                /\ invoices' = invoices
          /\ CreatedStep(s) =>
                \E r \in invoices' \ invoices :
                    /\ invoices' = invoices \cup {r}
                    /\ r.user_id = SessionUser(s)
                    /\ r.invoice_number = cf[s].sent
          /\ (cf[s].pc = "open" /\ cf[s].invoiceNumber = <<>>) =>
                /\ cf'[s].pc # "saving"
                /\ cf'[s].inflight = <<>>]_vars

\* C10 witness: a create stored the text "A1" the user typed over the
\* suggestion, and a submit with an empty field was refused by validation.
StoredNumberWitness ==
    /\ \E s \in CreateSessions : \E r \in invoices :
          /\ Created(s) /\ cf[s].sent = <<"A", "1">>
          /\ r.user_id = SessionUser(s) /\ r.invoice_number = <<"A", "1">>
    /\ \E s \in CreateSessions :
          /\ cf[s].pc = "open" /\ cf[s].invoiceNumber = <<>>
          /\ "invoiceNumber" \in cf[s].formErrors /\ cf[s].items # <<>>

\* The invoices of user u, and the number the create form of u would be given.
OwnRows(rows, u) == {r \in rows : r.user_id = u}

Suggestion(rows, u) ==
    getNextInvoiceNumber(rpc_get_next_invoice_number(rows, u, <<u>>))

\* C11: the number suggested to a user is the one computed from that user's
\* own invoices alone, and a step that creates, edits or deletes invoices of
\* other users only leaves it unchanged; the number a create form receives is
\* the one of its user's own invoices.
SuggestionScopedPerUser ==
    [][\A u \in Users :
          /\ Suggestion(invoices', u) = Suggestion(OwnRows(invoices', u), u)
          /\ OwnRows(invoices', u) = OwnRows(invoices, u)
                => Suggestion(invoices', u) = Suggestion(invoices, u)
          /\ \A s \in ScopeCreateSessions :
                (/\ SessionUser(s) = u
                 /\ cf[s].numReq = "pending" /\ cf'[s].numReq = "done")
                => cf'[s].invoiceNumber = Suggestion(OwnRows(invoices, u), u)]_vars

\* C11 witness: user u2 has created "100", renamed an invoice to "2" and
\* lost invoices to a client deletion, and the form of u1 was given "4".
ScopedWitness ==
    /\ \E r \in invoices : r.user_id = "u2" /\ r.invoice_number = <<"2">>
    /\ cf["c3"].pc = "done" /\ cf["c3"].sent = <<"1", "0", "0">>
    /\ ~\E r \in invoices : r.user_id = "u2" /\ r.invoice_number = <<"9", "9">>
    /\ cf["c1"].pc = "open" /\ cf["c1"].rpc = "data"
    /\ cf["c1"].invoiceNumber = <<"4">>

\* The calls of get_next_invoice_number a signed-in user can make.
RpcArgs == {<<>>} \cup {<<u>> : u \in Users}

\* C12: with the fix migration applied, whatever call of
\* get_next_invoice_number a user makes, the answer is computed from the
\* caller's own invoices: it tells nothing about the invoices of other users.
CallerLearnsOnlyOwnNumber ==
    \A caller \in Users : \A args \in RpcArgs :
        rpc_get_next_invoice_number(invoices, caller, args)
            = rpc_get_next_invoice_number(OwnRows(invoices, caller), caller, args)

\* A form with at most one tax rate set: that rate, and the tax it gives.
SingleRateForms ==
    {f \in MountedForms :
        Cardinality({x \in {"igstRate", "sgstRate", "cgstRate"} : f[x] # 0}) <= 1}

SingleRate(f) == f.igstRate + f.sgstRate + f.cgstRate

SingleAmount(f) ==
    TotalsOf(f).igstAmount + TotalsOf(f).sgstAmount + TotalsOf(f).cgstAmount

\* C13: with a single tax rate gstRate set, the calculator gives
\* gstAmount = subtotal * gstRate / 100, totalTax = gstAmount and
\* total = subtotal + gstAmount; items (2 x 100) and (1 x 50) at 18 percent
\* give subtotal 250, tax 45 and total 295.
SingleRateTotals ==
    \A f \in SingleRateForms :
        /\ TotalsOf(f).subtotal = SumProducts(f.items)
        /\ SingleAmount(f) * 100 = SumProducts(f.items) * SingleRate(f)
        /\ TotalsOf(f).totalTax = SingleAmount(f)
        /\ TotalsOf(f).total = SumProducts(f.items) + SingleAmount(f)
        /\ (/\ Len(f.items) = 2 /\ SingleRate(f) = 18
            /\ f.items[1].quantity = 2 /\ f.items[1].rate = 100 * Rupee
            /\ f.items[2].quantity = 1 /\ f.items[2].rate = 50 * Rupee)
           => /\ TotalsOf(f).subtotal = 250 * Rupee
              /\ SingleAmount(f) = 45 * Rupee
              /\ TotalsOf(f).total = 295 * Rupee

\* C13 witness: the create form holds the two items of the example and the
\* rate 18 in the IGST field alone.
SingleRateWitness ==
    \E f \in SingleRateForms :
        /\ Len(f.items) = 2 /\ f.igstRate = 18 /\ SingleRate(f) = 18
        /\ f.items[1].quantity = 2 /\ f.items[1].rate = 100 * Rupee
        /\ f.items[2].quantity = 1 /\ f.items[2].rate = 50 * Rupee
        /\ TotalsOf(f).total = 295 * Rupee

\* The item list of a fresh form into which the description, quantity and
\* rate of each of the given items are entered in turn.
RECURSIVE FreshItems(_)
FreshItems(items) ==
    IF items = <<>> THEN <<>>
    ELSE LET k    == Len(items)
             a    == CreateAddItemTo(FreshItems(SubSeq(items, 1, k - 1)))
             b    == CreateUpdateItemIn(a, k, "description", items[k].description)
             c    == CreateUpdateItemIn(b, k, "quantity", items[k].quantity)
         IN  CreateUpdateItemIn(c, k, "rate", items[k].rate)

\* Tax settings <<IGST, SGST, CGST>>: none, IGST alone, all three.
TaxRateTriples == {<<0, 0, 0>>, <<18, 0, 0>>, <<18, 9, 9>>}

\* C14: whatever sequence of item changes led to the items of a form, the
\* totals computed from them are the totals of a fresh form into which the
\* same quantities and rates are entered directly, with no tax, with IGST
\* alone and with all three taxes: no earlier quantity or rate is left in the
\* totals.
NoStaleTotals ==
    \A f \in MountedForms :
        LET fresh == FreshItems(f.items) IN
        \A t \in TaxRateTriples :
            calculateTotals(f.items, t[1], t[2], t[3])
                = calculateTotals(fresh, t[1], t[2], t[3])

\* C14 witness: the edit form shows an invoice that was stored with one item
\* of quantity 2 made in the create form; the quantity of that item was
\* changed to 1 in the edit form and a second item was added to it.
NoStaleWitness ==
    \E e \in EditSessions : \E r \in invoices :
        /\ ef[e].pc = "open" /\ r.id = ef[e].id
        /\ Len(r.items) = 1 /\ Len(ef[e].items) = 2
        /\ r.items[1].quantity = 2 /\ r.items[1].amount = 2 * r.items[1].rate
        /\ r.items[1].rate # 0
        /\ ef[e].items[1].quantity = 1 /\ ef[e].items[1].rate = r.items[1].rate
        /\ ef[e].items[2].quantity = 2 /\ ef[e].items[2].rate # 0

\* A successful save of edit form e, and the table without the invoice it shows.
UpdatedStep(e) == ef[e].pc = "saving" /\ ef'[e].toast = ToastUpdateOk
                  /\ ef'[e].pc = "closed"
WithoutEdited(e) == {r \in invoices : r.id # ef[e].id}

PendingRequestBlocksNothing ==
    \A s \in CreateSessions :
        cf[s].numReq = "pending" =>
            /\ cf[s].pc \in {"open", "saving"}
            /\ cf[s].invoiceNumber \in TypedNumbers
            /\ cf[s].pc = "open" =>
                  /\ \A t \in TypedNumbers \ {cf[s].invoiceNumber} :
                        ENABLED TypeNumber(s, t)
                  /\ ENABLED SubmitCreate(s)
                  /\ (cf[s].invoiceNumber # <<>> /\ cf[s].items # <<>>)
                     => ENABLED (SubmitCreate(s) /\ cf'[s].pc = "saving")
            /\ cf[s].pc = "saving" =>
                  /\ Head(cf[s].inflight).invoice_number \in TypedNumbers \ {<<>>}
                  /\ ENABLED (InsertReturn(s, TRUE) /\ cf'[s].pc = "done")
                     \/ ViolatesUnique(invoices, StoredRow(NewId(invoices),
                           SessionUser(s), Head(cf[s].inflight), "draft"))

\* C16 witness: the request is still pending, the user typed "2" into the
\* empty field and submitted, and the insert is under way.
PendingRequestWitness ==
    \E s \in CreateSessions :
        /\ cf[s].numReq = "pending" /\ cf[s].pc = "saving"
        /\ cf[s].invoiceNumber = <<"2">>
        /\ Head(cf[s].inflight).invoice_number = <<"2">>

\* C17: a next-number request changes no stored invoice, the number it
\* returns is the number a second request right after it returns, and two
\* create forms of one user that ask while nothing is written are given the
\* same number.
RequestIsStateless ==
    /\ [][\A s \in CreateSessions :
             (cf[s].numReq = "pending" /\ cf'[s].numReq = "done")
             => /\ invoices' = invoices
                /\ cf'[s].rpc # "neterror"
                   => cf'[s].invoiceNumber = Suggestion(invoices', SessionUser(s))]_vars
    /\ [](\A s \in CreateSessions : \A t \in CreateSessions :
             (/\ SessionUser(s) = SessionUser(t)
              /\ cf[s].rpc \in {"data", "dberror"}
              /\ cf[t].rpc \in {"data", "dberror"})
             => cf[s].invoiceNumber = cf[t].invoiceNumber)

\* C17 witness: with "3", "7" and "10" stored, both create forms of u1 asked
\* and both show "11".
StatelessWitness ==
    /\ \A s \in CreateSessions : cf[s].rpc = "data" /\ cf[s].invoiceNumber = <<"1", "1">>
    /\ {r.invoice_number : r \in OwnRows(invoices, "u1")}
          = {<<"3">>, <<"7">>, <<"1", "0">>}

\* A rate outside 0..100 in one of the three tax-rate fields of form f.
RateOutOfRange(f) ==
    \E x \in TaxRateFields : f[x] < 0 \/ f[x] > 100

\* C18: every stored invoice has igst_rate, sgst_rate and cgst_rate in
\* 0..100, and a step of a create or edit form that holds a rate below 0 or
\* above 100 starts no write and changes no stored invoice.
StoredRatesInRange ==
    [][/\ \A r \in invoices' :
             /\ r.igst_rate >= 0 /\ r.igst_rate <= 100
             /\ r.sgst_rate >= 0 /\ r.sgst_rate <= 100
             /\ r.cgst_rate >= 0 /\ r.cgst_rate <= 100
       /\ \A s \in CreateSessions :
             (cf[s].pc = "open" /\ RateOutOfRange(cf[s]) /\ cf'[s] # cf[s])
             => /\ cf'[s].pc = "open" /\ cf'[s].inflight = <<>>
                /\ invoices' = invoices
       /\ \A e \in EditSessions :
             (ef[e].pc = "open" /\ RateOutOfRange(ef[e]) /\ ef'[e] # ef[e])
             => /\ ef'[e].pc = "open" /\ ef'[e].inflight = <<>>
                /\ invoices' = invoices]_vars

\* C18 witness: the create form was submitted with IGST 101 and the edit
\* form with SGST -1; both show the validation error, and the invoice the
\* edit form shows is stored with rates 100, 0 and 0.
RatesRejectedWitness ==
    /\ \E e \in EditSessions : \E r \in invoices :
          /\ ef[e].pc = "open" /\ ef[e].sgstRate = -1
          /\ "sgstRate" \in ef[e].formErrors
          /\ r.id = ef[e].id /\ r.igst_rate = 100 /\ r.sgst_rate = 0
    /\ invoices # {}

\* C18 witness for the create form.
RatesRejectedCreateWitness ==
    \E s \in CreateSessions :
        /\ cf[s].pc = "open" /\ cf[s].igstRate = 101 /\ cf[s].items # <<>>
        /\ cf[s].invoiceNumber # <<>> /\ "igstRate" \in cf[s].formErrors

\* The tax columns of column values v are the rates of form f and the
\* amounts those rates give on the subtotal of v.
TaxColumnsOf(v, f) ==
    /\ v.igst_rate = f.igstRate /\ v.sgst_rate = f.sgstRate
    /\ v.cgst_rate = f.cgstRate
    /\ v.igst_amount * 100 = v.subtotal * f.igstRate
    /\ v.sgst_amount * 100 = v.subtotal * f.sgstRate
    /\ v.cgst_amount * 100 = v.subtotal * f.cgstRate

AllRatesSet(f) == f.igstRate > 0 /\ f.sgstRate > 0 /\ f.cgstRate > 0

\* C19: the forms treat the three rates independently: a step of an open
\* form changes at most one of them, a submit sends each rate as it is in
\* the form with the amount it gives, the row a create stores carries the
\* rates and amounts sent, a filled-in form with all three rates set (within
\* 0..100) is accepted, and a row with a subtotal and all three rates set has
\* all three tax amounts set.
RatesIndependent ==
    [][/\ \A s \in CreateSessions :
             /\ (cf[s].pc = "open" /\ cf'[s].pc = "open")
                => Cardinality({x \in TaxRateFields : cf'[s][x] # cf[s][x]}) <= 1
             /\ SubmitStep(s) => TaxColumnsOf(Head(cf'[s].inflight), cf[s])
             /\ CreatedStep(s) =>
                   \E r \in invoices' \ invoices :
                       /\ r.igst_rate = Head(cf[s].inflight).igst_rate
                       /\ r.sgst_rate = Head(cf[s].inflight).sgst_rate
                       /\ r.cgst_rate = Head(cf[s].inflight).cgst_rate
                       /\ r.igst_amount = Head(cf[s].inflight).igst_amount
                       /\ r.sgst_amount = Head(cf[s].inflight).sgst_amount
                       /\ r.cgst_amount = Head(cf[s].inflight).cgst_amount
             /\ (/\ cf'[s].pc = "open" /\ AllRatesSet(cf'[s])
                 /\ ~RateOutOfRange(cf'[s])
                 /\ cf'[s].items # <<>> /\ cf'[s].invoiceNumber # <<>>)
                => CreateOnSubmit(cf'[s], SessionUser(s)).pc = "saving"
       /\ \A e \in EditSessions :
             /\ (ef[e].pc = "open" /\ ef'[e].pc = "open")
                => Cardinality({x \in TaxRateFields : ef'[e][x] # ef[e][x]}) <= 1
             /\ (ef[e].pc = "open" /\ ef'[e].pc = "saving")
                => TaxColumnsOf(Head(ef'[e].inflight), ef[e])
       /\ \A r \in invoices' :
             (r.subtotal # 0 /\ r.igst_rate # 0 /\ r.sgst_rate # 0 /\ r.cgst_rate # 0)
             => r.igst_amount # 0 /\ r.sgst_amount # 0 /\ r.cgst_amount # 0]_vars

\* C19 witness: an invoice stored by the create form with IGST 9, SGST 9 and
\* CGST 100 and all three tax amounts, while the edit form, opened on it,
\* holds 100, 9 and 9.
AllRatesWitness ==
    \E r \in invoices : \E e \in EditSessions :
        /\ r.igst_rate = 9 /\ r.sgst_rate = 9 /\ r.cgst_rate = 100
        /\ r.subtotal = 1025 * Paisa
        /\ r.igst_amount # 0 /\ r.sgst_amount # 0 /\ r.cgst_amount = r.subtotal
        /\ ef[e].pc = "saving" /\ ef[e].id = r.id
        /\ ef[e].igstRate = 100 /\ ef[e].sgstRate = 9 /\ ef[e].cgstRate = 9

\* C20: every line item a create or edit form holds, and every line item of
\* a stored invoice, has quantity > 0 and rate >= 0.
QuantityPositiveRateNonNegative ==
    /\ \A f \in MountedForms : \A i \in 1..Len(f.items) :
          f.items[i].quantity > 0 /\ f.items[i].rate >= 0
    /\ \A r \in invoices : \A i \in 1..Len(r.items) :
          r.items[i].quantity > 0 /\ r.items[i].rate >= 0

\* C20 for stored invoices alone.
StoredQuantityPositiveRateNonNegative ==
    \A r \in invoices : \A i \in 1..Len(r.items) :
        r.items[i].quantity > 0 /\ r.items[i].rate >= 0

\* A form holding an item with a negative quantity or a negative rate.
HasNegativeItem(f) ==
    \E i \in 1..Len(f.items) : f.items[i].quantity < 0 \/ f.items[i].rate < 0

\* C21: for items with a negative quantity or rate the calculator returns
\* the (possibly negative) sum of quantity * rate as subtotal, the tax
\* amounts subtotal * rate / 100 and their sum with the subtotal as total;
\* and the submit of such a form, when the inputs and the schema are valid,
\* starts the write with these totals.
NegativeInputPropagates ==
    /\ \A f \in MountedForms :
          HasNegativeItem(f) =>
              /\ TotalsOf(f).subtotal = SumProducts(f.items)
              /\ TotalsOf(f).igstAmount * 100 = SumProducts(f.items) * f.igstRate
              /\ TotalsOf(f).total = SumProducts(f.items) + TotalsOf(f).igstAmount
                     + TotalsOf(f).sgstAmount + TotalsOf(f).cgstAmount
    /\ \A s \in CreateSessions :
          (/\ cf[s].pc = "open" /\ HasNegativeItem(cf[s])
           /\ CreateInputsValid(cf[s]) /\ cf[s].invoiceNumber # <<>>)
          => ENABLED (/\ SubmitCreate(s) /\ cf'[s].pc = "saving"
                      /\ Head(cf'[s].inflight).subtotal = SumProducts(cf[s].items))
    /\ \A e \in EditSessions :
          (ef[e].pc = "open" /\ HasNegativeItem(ef[e]) /\ ef[e].invoiceNumber # <<>>)
          => ENABLED (/\ SubmitEdit(e) /\ ef'[e].pc = "saving"
                      /\ Head(ef'[e].inflight).subtotal = SumProducts(ef[e].items))

\* C21 witness: an invoice stored with quantity 2, rate -1 and IGST 18:
\* subtotal -2, IGST amount -0.36 and total -2.36.
NegativeInputWitness ==
    \E r \in invoices :
        /\ r.items[1].quantity = 2 /\ r.items[1].rate = 0 - Rupee
        /\ r.igst_rate = 18
        /\ r.subtotal = 0 - 2 * Rupee
        /\ r.igst_amount = 0 - 36 * Paisa
        /\ r.total_amount = 0 - 236 * Paisa

\* The stored invoice a document was made from.
OutputRow == CHOOSE r \in invoices : r.id = ledger.output.id

\* The document shows the stored totals of row r: the subtotal and the total
\* as stored, and a line for each tax amount above 0 with the stored amount in
\* the three fraction digits of the number format.
ShowsStored(block, r) ==
    /\ block.subtotal = r.subtotal
    /\ block.total = r.total_amount
    /\ DOMAIN block.taxes = {x \in TaxNames : TaxAmount(r, x) > 0}
    /\ \A x \in DOMAIN block.taxes :
          /\ block.taxes[x] \in Renderings(TaxAmount(r, x), LocaleDigits)
          /\ 2 * (block.taxes[x] - TaxAmount(r, x)) <= Pow10(4 - LocaleDigits)
          /\ 2 * (TaxAmount(r, x) - block.taxes[x]) <= Pow10(4 - LocaleDigits)

ShownIsStored ==
    /\ ledger.output.kind \in {"pdf", "jpeg", "view"} =>
          /\ \E r \in invoices : r.id = ledger.output.id
          /\ ShowsStored(ledger.output.block, OutputRow)
    /\ ledger.output.kind = "csv" =>
          /\ ledger.output.block.subtotal = OutputRow.subtotal
          /\ ledger.output.block.total = OutputRow.total_amount
          /\ \A x \in TaxNames : ledger.output.block.taxes[x] = TaxAmount(OutputRow, x)
    /\ ledger.output.kind = "table" =>
          \A id \in DOMAIN ledger.output.block :
             \E r \in invoices : r.id = id /\ ledger.output.block[id].amount = r.total_amount

\* C22: the invoice view and the PDF, JPEG and CSV exports show the stored
\* subtotal, tax amounts and total_amount of the invoice, not totals computed
\* again from its items, and a step that views or exports leaves every stored
\* invoice as it was.
ReadsTrustStoredTotals ==
    /\ []ShownIsStored
    /\ [][ledger'.output # ledger.output => invoices' = invoices]_vars

\* A PDF of the invoice stored with total 12.10 and IGST 1.845, whose items and
\* rate give 12.095, shows 12.10.
ReadsTrustWitness ==
    /\ ledger.output.kind = "pdf"
    /\ ledger.output.block.subtotal = 1025 * Paisa
    /\ ledger.output.block.total = 1210 * Paisa
    /\ "igst" \in DOMAIN ledger.output.block.taxes
    /\ ledger.output.block.taxes["igst"] = 18450
    /\ calculateTotals(OutputRow.items, OutputRow.igst_rate, OutputRow.sgst_rate,
                       OutputRow.cgst_rate).total = 120950
\* C30: every entry of the ledger's client filter selects at least one invoice,
\* and with an entry selected the table lists exactly the invoices whose
\* displayed client name is the entry and whose status passes the status
\* filter.
ClientFilterAgrees ==
    ledger.pc = "open" =>
       \A e \in uniqueClients(ledger.data) :
          /\ filteredInvoices(ledger.data, "all", e) # {}
          /\ \A sf \in {"all"} \cup Statuses :
                filteredInvoices(ledger.data, sf, e) =
                   {d \in ledger.data :
                       /\ DisplayedClient(d.clients) = e
                       /\ (sf = "all" \/ d.invoice.status = sf)}
\* C23: the create form writes the suggested number only into an empty field:
\* when the request answers while the field holds a value the user typed, the
\* field keeps that value.
SuggestionKeepsTypedValue ==
    [][\A s \in CreateSessions :
          (/\ cf[s].numReq = "pending"
           /\ cf'[s].numReq = "done"
           /\ cf[s].invoiceNumber # <<>>)
          => cf'[s].invoiceNumber = cf[s].invoiceNumber]_vars
\* C24: when the request for the next number succeeded and no invoice of the
\* user was written since, the number in the field differs from every invoice
\* number the user has, and an insert of the form with it is not rejected by
\* the uniqueness constraint.
SuggestionIsFree ==
    \A s \in CreateSessions :
       cf[s].rpc = "data" =>
          /\ \A r \in invoices :
                r.user_id = SessionUser(s) => r.invoice_number # cf[s].invoiceNumber
          /\ InsertInvoice(invoices, [user_id |-> SessionUser(s), status |-> "draft"]
                                     @@ ColumnValues(cf[s])).error = ""

\* The user has "007" and "3" and is offered "8".
SuggestionIsFreeWitness ==
    /\ \E r \in invoices : r.user_id = "u1" /\ r.invoice_number = <<"0", "0", "7">>
    /\ \E r \in invoices : r.user_id = "u1" /\ r.invoice_number = <<"3">>
    /\ cf["c1"].rpc = "data"
    /\ cf["c1"].invoiceNumber = <<"8">>
\* C25: for the all-digit invoice numbers a user has stored, however long, the
\* cast to INTEGER and the increment in get_next_invoice_number raise no
\* error, and the function returns the decimal text of the largest plus one.
CastNeverOverflows ==
    \A u \in Users :
       /\ \A r \in invoices :
             (r.user_id = u /\ IsAllDigits(r.invoice_number)) =>
                 /\ CastInteger(StripNonDigits(r.invoice_number)) # -1
                 /\ CastInteger(StripNonDigits(r.invoice_number)) < IntegerMax
       /\ get_next_invoice_number(invoices, u) =
             [kind |-> "data", data |-> MaxPlusOne(invoices, u)]
\* What supabase.rpc can resolve to: data (possibly empty) or an error from
\* the database; a transport failure makes it throw.
RpcResponses ==
    {[kind |-> "data", data |-> <<"8">>], [kind |-> "data", data |-> <<>>],
     [kind |-> "dberror", data |-> <<>>], [kind |-> "neterror", data |-> <<>>]}

\* C26: getNextInvoiceNumber resolves to a non-empty text: to "1" when nobody
\* is signed in, when the remote call returns an error or throws and when it
\* returns an empty result, and to the returned value otherwise.
NextNumberNeverEmpty ==
    /\ \A s \in CreateSessions :
          cf[s].numReq = "done" =>
             /\ cf[s].invoiceNumber # <<>>
             /\ cf[s].rpc \in {"dberror", "neterror"} => cf[s].invoiceNumber = <<"1">>
             /\ cf[s].rpc = "data" =>
                   cf[s].invoiceNumber =
                      get_next_invoice_number(invoices, SessionUser(s)).data
    /\ \A resp \in RpcResponses :
          /\ getNextInvoiceNumberAs("", resp) = <<"1">>
          /\ getNextInvoiceNumberAs("u1", resp) # <<>>
          /\ getNextInvoiceNumberAs("u1", resp) =
                IF resp.kind = "data" /\ resp.data # <<>> THEN resp.data ELSE <<"1">>

\* The function raised "integer out of range" and the form shows "1".
NextNumberFallbackWitness ==
    /\ \E r \in invoices :
          r.user_id = "u1"
          /\ r.invoice_number = <<"2", "1", "4", "7", "4", "8", "3", "6", "4", "7">>
    /\ cf["c1"].numReq = "done"
    /\ cf["c1"].rpc = "dberror"
    /\ cf["c1"].invoiceNumber = <<"1">>
\* The values a form holds.
FieldValues(f) == <<f.invoiceNumber, f.igstRate, f.sgstRate, f.cgstRate, f.items>>

\* Form g is form f after a submit that was rejected with a message and sent
\* nothing.
RejectedWithMessage(f, g) ==
    /\ g.pc = "open"
    /\ ~g.loading
    /\ g.inflight = <<>>
    /\ FieldValues(g) = FieldValues(f)
    /\ g.toast = ToastNoItems \/ g.formErrors # {}

\* C27: a submit of the create form or of the edit form while the item list is
\* empty is rejected with an error message before anything is written: the
\* table and the values of the form stay as they are and loading stays false.
EmptyItemsRejected ==
    /\ [](\A s \in CreateSessions :
             (cf[s].pc = "open" /\ cf[s].items = <<>>) =>
                RejectedWithMessage(cf[s], CreateOnSubmit(cf[s], SessionUser(s))))
    /\ [](\A e \in EditSessions :
             (ef[e].pc = "open" /\ ef[e].items = <<>>) =>
                RejectedWithMessage(ef[e], EditOnSubmit(ef[e])))
    /\ [][\A s \in CreateSessions :
             (cf[s].items = <<>> /\ cf[s].toast # ToastNoItems
              /\ cf'[s].toast = ToastNoItems) =>
                (invoices' = invoices /\ RejectedWithMessage(cf[s], cf'[s]))]_vars
    /\ [][\A e \in EditSessions :
             (ef[e].items = <<>> /\ ef[e].toast # ToastNoItems
              /\ ef'[e].toast = ToastNoItems) =>
                (invoices' = invoices /\ RejectedWithMessage(ef[e], ef'[e]))]_vars

\* The edit form of a stored invoice has lost its items, was submitted and
\* shows the message, and the invoice still has its item.
EmptyItemsRejectedWitness ==
    /\ ef[FormEditSession].pc = "open"
    /\ ef[FormEditSession].items = <<>>
    /\ ef[FormEditSession].toast = ToastNoItems
    /\ ~ef[FormEditSession].loading
    /\ \E r \in invoices : r.id = ef[FormEditSession].id /\ Len(r.items) = 1
\* The invoices of the user of create form s with the number its last submit
\* sent.
StoredForSent(s) ==
    {r \in invoices : r.user_id = SessionUser(s) /\ r.invoice_number = cf[s].sent}

\* C28: a create form that is submitted again, while its insert is under way
\* or after it has returned, stores at most one invoice for its number, and
\* whenever a submit attempt has completed loading is false.
SubmitTwiceStoresOnce ==
    /\ [](\A s \in CreateSessions :
             /\ cf[s].loading <=> cf[s].pc = "saving"
             /\ Len(cf[s].inflight) <= 1
             /\ cf[s].loading => ~ENABLED SubmitCreate(s)
             /\ Cardinality(StoredForSent(s)) <= 1)
    /\ [][\A s \in CreateSessions :
             /\ (cf[s].pc = "saving" /\ cf'[s].pc # "saving") => ~cf'[s].loading
             /\ (cf[s].pc = "saving" /\ cf'[s] # cf[s] /\ invoices' # invoices) =>
                   /\ cf'[s].pc = "done"
                   /\ Cardinality(invoices') = Cardinality(invoices) + 1
             /\ cf[s].pc = "done" => cf'[s] = cf[s]]_vars

\* The first submit of the form failed, the form was submitted again with the
\* same number and that insert is under way; no invoice has the number yet.
SubmitTwiceWitness ==
    /\ cf["c1"].pc = "saving"
    /\ cf["c1"].loading
    /\ cf["c1"].toast = ToastCreateFail
    /\ cf["c1"].sent = <<"2">>
    /\ Head(cf["c1"].inflight).invoice_number = <<"2">>
    /\ StoredForSent("c1") = {}
\* Row n is row o with the columns an edit writes replaced: id, user_id and
\* status are those of o.
EditedFrom(n, o) == n.id = o.id /\ n.user_id = o.user_id /\ n.status = o.status

\* C29: a step that changes the table through the edit form changes only the
\* invoice with the edited id, only when it belongs to the form's user, and
\* leaves its id, user_id and status as they were; a status change in the
\* ledger changes only the status of the selected invoice; every other
\* invoice stays as it is.
EditChangesOnlyItsInvoice ==
    /\ [][invoices' # invoices =>
            \E o \in invoices : \E n \in invoices' :
               /\ invoices' \ {n} = invoices \ {o}
               /\ \/ \E e \in AllEditSessions :
                        /\ ef[e].pc = "saving" /\ ef'[e].pc # "saving"
                        /\ o.id = ef[e].id /\ o.user_id = SessionUser(e)
                        /\ EditedFrom(n, o)
                  \/ /\ \A e \in AllEditSessions : ef'[e] = ef[e]
                     /\ n = [o EXCEPT !.status = n.status]]_vars
    /\ [](\A e \in AllEditSessions :
             ef[e].pc = "saving" =>
                \A u \in Users \ {SessionUser(e)} :
                   UpdateInvoice(invoices, ef[e].id, u, Head(ef[e].inflight)).rows
                      = invoices)
    /\ [](\A e \in AllEditSessions :
             ef[e].pc \in {"open", "saving"} =>
                \A r \in invoices : r.id = ef[e].id => r.user_id = SessionUser(e))

\* User u1 marked the invoice numbered "3" as paid and renumbered it "2" with
\* IGST 18: the row is still paid, and the other invoices are as they were.
EditChangesWitness ==
    /\ \E r \in invoices :
          /\ r.user_id = "u1" /\ r.invoice_number = <<"2">>
          /\ r.status = "paid" /\ r.igst_rate = 18
    /\ \E r \in invoices :
          /\ r.user_id = "u1" /\ r.invoice_number = <<"A", "1">>
          /\ r.status = "draft" /\ r.igst_rate = 0
    /\ \E r \in invoices :
          /\ r.user_id = "u2" /\ r.invoice_number = <<"9", "9">>
          /\ r.status = "draft"
====
